---- MODULE Spec2Model ----
(***************************************************************************)
(* A model of the tile-matching bot: the connectivity solver               *)
(* (bot/solver.py), the rescan controller (bot/state.py), the classifier   *)
(* (bot/classify.py), the clicker (bot/clicker.py, bot/grid.py) and the    *)
(* click-once cycle, frame capture and validation of main.py.              *)
(*                                                                         *)
(* Encodings.  A numpy board is a record [rows, cols, cell] whose cell     *)
(* field maps each 0-based <<row, col>> to its integer value.  A Python    *)
(* Optional value is None (the empty tuple) or the value itself; an        *)
(* Optional string is None or the one-element tuple <<s>>, since a string  *)
(* and a tuple are not comparable.                                         *)
(***************************************************************************)
EXTENDS Integers, Sequences, FiniteSets, TLC

VARIABLES
    board,      \* solver: the Board under test (find_pair's argument)
    op,         \* the operation that produced the current state
    arg_a,      \* solver: can_connect's first cell (padded coordinates)
    arg_b,      \* solver: can_connect's second cell (padded coordinates)
    ret,        \* the value the last operation returned
    rs,         \* controller: the RuntimeState dictionary
    config,     \* controller: the configuration mapping
    conf,       \* controller: should_full_rescan's confidence argument
    tick,       \* controller: flips at every call, so that a call which
                \* leaves the RuntimeState as it was is still a step
    streak,     \* history: the record_failure calls made since the last
                \* apply_successful_move, or since the start
    arg_pair,   \* the pair argument of the last operation, if it took one;
                \* in the click-once cycle, its local variable pair
    frame,      \* classifier: the captured frame, as far as it is read
    pc,         \* click-once cycle: the statement of _click_once reached
    attempt,    \* click-once cycle: the recovery loop's variable
    trace,      \* history: the calls made so far, oldest first
    dry_run,    \* click_pair's dry_run argument
    search,     \* can_connect: the queue, best_turns and the outcome
    expanded,   \* history: the states can_connect has popped, oldest first
    grouping,   \* group_tiles_by_similarity: the parent list, the loop
                \* position and the groups filed so far
    capture,    \* _capture_stable_board: prev, stable_pairs, the loop
                \* position and the outcome
    pointer,    \* click-once cycle: what its click_pair call has done so
                \* far, as the events of bot/clicker.py, oldest first
    since_rescan \* history: the apply_successful_move calls made since
                \* should_full_rescan last returned true, as a one-element
                \* tuple; None before that

solver_vars == <<board, op, arg_a, arg_b, ret>>

controller_vars == <<rs, config, conf, tick, streak, arg_pair>>

classifier_vars == <<frame>>

cycle_vars == <<pc, attempt, trace, dry_run>>

search_vars == <<search, expanded>>

\* The calls that run in several steps.
loop_vars == <<grouping, capture, pointer>>

vars ==
    <<solver_vars, controller_vars, classifier_vars, cycle_vars, search_vars,
      loop_vars, since_rescan>>

None == <<>>

(***************************************************************************)
(* bot/solver.py                                                           *)
(***************************************************************************)

\* Mutant of DIRS: the last direction (right) is missing from the table.
DIRSWithoutRight == <<<<-1, 0>>, <<1, 0>>, <<0, -1>>>>

\* _DIRS, indexed 0..3 as enumerate() numbers it: up, down, left, right.
DIRS == <<<<-1, 0>>, <<1, 0>>, <<0, -1>>, <<0, 1>>>>

DirIdx == 0 .. (Len(DIRS) - 1)

\* `if next_turns > 2: continue`
MaxTurns == 2

MkBoard(rows, cols, f) == [rows |-> rows, cols |-> cols, cell |-> f]

CellsOf(b) == (0 .. (b.rows - 1)) \X (0 .. (b.cols - 1))

\* pad_board with a border of obstacles in place of the border of zeros.
pad_boardBlockedBorder(b) ==
    MkBoard(b.rows + 2, b.cols + 2,
            [p \in (0 .. (b.rows + 1)) \X (0 .. (b.cols + 1)) |->
                IF /\ 1 <= p[1] /\ p[1] <= b.rows
                   /\ 1 <= p[2] /\ p[2] <= b.cols
                THEN b.cell[<<p[1] - 1, p[2] - 1>>]
                ELSE -1])

pad_board(b) ==
    MkBoard(b.rows + 2, b.cols + 2,
            [p \in (0 .. (b.rows + 1)) \X (0 .. (b.cols + 1)) |->
                IF /\ 1 <= p[1] /\ p[1] <= b.rows
                   /\ 1 <= p[2] /\ p[2] <= b.cols
                THEN b.cell[<<p[1] - 1, p[2] - 1>>]
                ELSE 0])

\* 0 <= r < rows and 0 <= c < cols
InBounds(padded, r, c) ==
    /\ 0 <= r /\ r < padded.rows
    /\ 0 <= c /\ c < padded.cols

\* Mutant of NextTurns: the origin state's first move costs a turn too.
NextTurnsOriginPays(dir_idx, turns, next_dir) ==
    IF dir_idx = next_dir THEN turns ELSE turns + 1

\* next_turns = turns if dir_idx in (-1, next_dir) else turns + 1
NextTurns(dir_idx, turns, next_dir) ==
    IF dir_idx = -1 \/ dir_idx = next_dir THEN turns ELSE turns + 1

\* The search state of can_connect: the deque, the best_turns dictionary
\* (a function whose domain is the keys present) and whether `return True`
\* was reached.
SearchInit(a) ==
    [queue |-> << <<a[1], a[2], -1, 0>> >>,
     best_turns |-> [k \in {} |-> 0],
     found |-> FALSE]

\* Mutant of Ray: a state reached again with the same number of turns is
\* enqueued again (`next_turns <= prev_best`).
RECURSIVE RayEnqueuesOnTie(_, _, _, _, _, _, _)
RayEnqueuesOnTie(padded, b, st, nr, nc, next_dir, next_turns) ==
    IF ~InBounds(padded, nr, nc) THEN st
    ELSE IF <<nr, nc>> # b /\ padded.cell[<<nr, nc>>] # 0 THEN st
    ELSE IF <<nr, nc>> = b THEN [st EXCEPT !.found = TRUE]
    ELSE
        LET state_key == <<nr, nc, next_dir>>
            improved == \/ state_key \notin DOMAIN st.best_turns
                        \/ next_turns <= st.best_turns[state_key]
            st2 == IF improved
                   THEN [st EXCEPT
                           !.best_turns =
                               [k \in (DOMAIN st.best_turns) \cup {state_key} |->
                                   IF k = state_key THEN next_turns
                                   ELSE st.best_turns[k]],
                           !.queue = Append(st.queue,
                                            <<nr, nc, next_dir, next_turns>>)]
                   ELSE st
        IN  RayEnqueuesOnTie(padded, b, st2,
                nr + DIRS[next_dir + 1][1], nc + DIRS[next_dir + 1][2],
                next_dir, next_turns)

\* The inner `while 0 <= nr < rows and 0 <= nc < cols` loop: one ray from
\* (nr, nc) onwards in direction next_dir.
RECURSIVE Ray(_, _, _, _, _, _, _)
Ray(padded, b, st, nr, nc, next_dir, next_turns) ==
    IF ~InBounds(padded, nr, nc) THEN st
    ELSE IF <<nr, nc>> # b /\ padded.cell[<<nr, nc>>] # 0 THEN st
    ELSE IF <<nr, nc>> = b THEN [st EXCEPT !.found = TRUE]
    ELSE
        LET state_key == <<nr, nc, next_dir>>
            improved == \/ state_key \notin DOMAIN st.best_turns
                        \/ next_turns < st.best_turns[state_key]
            st2 == IF improved
                   THEN [st EXCEPT
                           !.best_turns =
                               [k \in (DOMAIN st.best_turns) \cup {state_key} |->
                                   IF k = state_key THEN next_turns
                                   ELSE st.best_turns[k]],
                           !.queue = Append(st.queue,
                                            <<nr, nc, next_dir, next_turns>>)]
                   ELSE st
        IN  Ray(padded, b, st2,
                nr + DIRS[next_dir + 1][1], nc + DIRS[next_dir + 1][2],
                next_dir, next_turns)

\* The `for next_dir, (dr, dc) in enumerate(_DIRS)` loop from next_dir on,
\* for the popped state (r, c, dir_idx, turns); it stops at `return True`.
RECURSIVE ScanDirs(_, _, _, _, _, _, _, _)
ScanDirs(padded, b, st, r, c, dir_idx, turns, next_dir) ==
    IF st.found \/ next_dir >= Len(DIRS) THEN st
    ELSE
        LET next_turns == NextTurns(dir_idx, turns, next_dir)
            st2 == IF next_turns > MaxTurns THEN st
                   ELSE Ray(padded, b, st,
                            r + DIRS[next_dir + 1][1], c + DIRS[next_dir + 1][2],
                            next_dir, next_turns)
        IN  ScanDirs(padded, b, st2, r, c, dir_idx, turns, next_dir + 1)

\* One iteration of `while queue`: popleft, then the four rays.
SearchStep(padded, b, st) ==
    LET head == Head(st.queue)
    IN  ScanDirs(padded, b, [st EXCEPT !.queue = Tail(st.queue)],
                 head[1], head[2], head[3], head[4], 0)

RECURSIVE SearchLoop(_, _, _)
SearchLoop(padded, b, st) ==
    IF st.found THEN TRUE
    ELSE IF st.queue = <<>> THEN FALSE
    ELSE SearchLoop(padded, b, SearchStep(padded, b, st))

\* Mutant of can_connect: the two values are not compared with each other.
can_connectAnyPositive(padded, a, b) ==
    IF a = b THEN FALSE
    ELSE IF ~(InBounds(padded, a[1], a[2]) /\ InBounds(padded, b[1], b[2]))
    THEN FALSE
    ELSE
        LET tile_a == padded.cell[a]
            tile_b == padded.cell[b]
        IN  IF tile_a <= 0 \/ tile_b <= 0 THEN FALSE
            ELSE SearchLoop(padded, b, SearchInit(a))

can_connect(padded, a, b) ==
    IF a = b THEN FALSE
    ELSE IF ~(InBounds(padded, a[1], a[2]) /\ InBounds(padded, b[1], b[2]))
    THEN FALSE
    ELSE
        LET tile_a == padded.cell[a]
            tile_b == padded.cell[b]
        IN  IF tile_a <= 0 \/ tile_b <= 0 \/ tile_a # tile_b THEN FALSE
            ELSE SearchLoop(padded, b, SearchInit(a))

\* Mutant of ScanSecond: the candidates start on the row after the source
\* (`range(r1 + 1, rows)`), so pairs within one row are never tried.
RECURSIVE ScanSecondFromNextRow(_, _, _, _, _, _, _)
ScanSecondFromNextRow(b, padded, r1, c1, tile, r2, c2) ==
    IF r2 = r1 THEN ScanSecondFromNextRow(b, padded, r1, c1, tile, r1 + 1, 0)
    ELSE IF r2 >= b.rows THEN None
    ELSE IF c2 >= b.cols
    THEN ScanSecondFromNextRow(b, padded, r1, c1, tile, r2 + 1, 0)
    ELSE IF b.cell[<<r2, c2>>] # tile
    THEN ScanSecondFromNextRow(b, padded, r1, c1, tile, r2, c2 + 1)
    ELSE IF can_connect(padded, <<r1 + 1, c1 + 1>>, <<r2 + 1, c2 + 1>>)
    THEN <<<<r1, c1>>, <<r2, c2>>>>
    ELSE ScanSecondFromNextRow(b, padded, r1, c1, tile, r2, c2 + 1)

\* The two inner loops of find_pair for the source cell (r1, c1) holding
\* `tile`, from the candidate (r2, c2) on.
RECURSIVE ScanSecond(_, _, _, _, _, _, _)
ScanSecond(b, padded, r1, c1, tile, r2, c2) ==
    IF r2 >= b.rows THEN None
    ELSE IF c2 >= b.cols THEN ScanSecond(b, padded, r1, c1, tile, r2 + 1, 0)
    ELSE IF b.cell[<<r2, c2>>] # tile
    THEN ScanSecond(b, padded, r1, c1, tile, r2, c2 + 1)
    ELSE IF can_connect(padded, <<r1 + 1, c1 + 1>>, <<r2 + 1, c2 + 1>>)
    THEN <<<<r1, c1>>, <<r2, c2>>>>
    ELSE ScanSecond(b, padded, r1, c1, tile, r2, c2 + 1)

\* Mutant of ScanFirst: the scan returns after the first positive source
\* cell, whether or not it found a partner.
RECURSIVE ScanFirstSourceOnly(_, _, _, _)
ScanFirstSourceOnly(b, padded, r1, c1) ==
    IF r1 >= b.rows THEN None
    ELSE IF c1 >= b.cols THEN ScanFirstSourceOnly(b, padded, r1 + 1, 0)
    ELSE IF b.cell[<<r1, c1>>] <= 0
    THEN ScanFirstSourceOnly(b, padded, r1, c1 + 1)
    ELSE ScanSecond(b, padded, r1, c1, b.cell[<<r1, c1>>], r1, c1 + 1)

\* The two outer loops of find_pair from the source cell (r1, c1) on.
RECURSIVE ScanFirst(_, _, _, _)
ScanFirst(b, padded, r1, c1) ==
    IF r1 >= b.rows THEN None
    ELSE IF c1 >= b.cols THEN ScanFirst(b, padded, r1 + 1, 0)
    ELSE IF b.cell[<<r1, c1>>] <= 0 THEN ScanFirst(b, padded, r1, c1 + 1)
    ELSE
        LET hit == ScanSecond(b, padded, r1, c1, b.cell[<<r1, c1>>], r1, c1 + 1)
        IN  IF hit # None THEN hit ELSE ScanFirst(b, padded, r1, c1 + 1)

find_pair(b) == ScanFirst(b, pad_board(b), 0, 0)

(***************************************************************************)
(* bot/state.py                                                            *)
(*                                                                         *)
(* A confidence map is the tuple of its cells' values (its shape plays no  *)
(* part in the controller); a confidence value and match_threshold are     *)
(* integer levels, compared as the floats are.                             *)
(***************************************************************************)

\* Mutant of init_runtime_state: no rescan yet is written as -1.
init_runtime_stateNoRescanYet(cfg) ==
    [move_count |-> 0,
     consecutive_failures |-> 0,
     last_full_rescan_move |-> -1,
     rescan_requested |-> FALSE,
     last_rescan_reason |-> None,
     last_event |-> "init",
     last_pair |-> None]

init_runtime_state(cfg) ==
    [move_count |-> 0,
     consecutive_failures |-> 0,
     last_full_rescan_move |-> 0,
     rescan_requested |-> FALSE,
     last_rescan_reason |-> None,
     last_event |-> "init",
     last_pair |-> None]

\* sep.join(parts)
RECURSIVE Join(_, _)
Join(parts, sep) ==
    IF parts = <<>> THEN ""
    ELSE IF Len(parts) = 1 THEN parts[1]
    ELSE parts[1] \o sep \o Join(Tail(parts), sep)

\* Mutant of RescanReasons: the periodic trigger compares with > instead
\* of >=.
RescanReasonsLate(state, confidence, cfg) ==
    LET move_count == state.move_count
        every_n == cfg.full_rescan_every_n_moves
        last_rescan_move == state.last_full_rescan_move
        threshold == cfg.match_threshold
        r1 == IF move_count > 0 /\ (move_count - last_rescan_move) > every_n
              THEN <<"periodic">> ELSE <<>>
        r2 == IF state.rescan_requested
              THEN Append(r1, "failure_or_mismatch") ELSE r1
    IN  IF Len(confidence) = 0 THEN Append(r2, "empty_confidence")
        ELSE IF \E i \in 1 .. Len(confidence) : confidence[i] < threshold
        THEN Append(r2, "low_confidence")
        ELSE r2

\* The list `reasons` should_full_rescan builds, in the order of its appends.
RescanReasons(state, confidence, cfg) ==
    LET move_count == state.move_count
        every_n == cfg.full_rescan_every_n_moves
        last_rescan_move == state.last_full_rescan_move
        threshold == cfg.match_threshold
        r1 == IF move_count > 0 /\ (move_count - last_rescan_move) >= every_n
              THEN <<"periodic">> ELSE <<>>
        r2 == IF state.rescan_requested
              THEN Append(r1, "failure_or_mismatch") ELSE r1
    IN  IF Len(confidence) = 0 THEN Append(r2, "empty_confidence")
        ELSE IF \E i \in 1 .. Len(confidence) : confidence[i] < threshold
        THEN Append(r2, "low_confidence")
        ELSE r2

\* Mutant of should_full_rescan: a triggered rescan does not record the move
\* it happened at, nor consume the request.
should_full_rescanKeepsTriggers(state, confidence, cfg) ==
    LET reasons == RescanReasons(state, confidence, cfg)
    IN  IF reasons = <<>>
        THEN [state |-> [state EXCEPT !.last_rescan_reason = None],
              ret |-> FALSE]
        ELSE [state |-> [state EXCEPT
                            !.last_rescan_reason = <<Join(reasons, ",")>>,
                            !.last_event = "full_rescan"],
              ret |-> TRUE]

\* Mutant of should_full_rescan: a triggered rescan also resets the
\* failure streak.
should_full_rescanResetsStreak(state, confidence, cfg) ==
    LET reasons == RescanReasons(state, confidence, cfg)
    IN  IF reasons = <<>>
        THEN [state |-> [state EXCEPT !.last_rescan_reason = None],
              ret |-> FALSE]
        ELSE [state |-> [state EXCEPT
                            !.last_full_rescan_move = state.move_count,
                            !.rescan_requested = FALSE,
                            !.consecutive_failures = 0,
                            !.last_rescan_reason = <<Join(reasons, ",")>>,
                            !.last_event = "full_rescan"],
              ret |-> TRUE]

\* Mutant of should_full_rescan: only a periodic rescan records the move
\* it happened at.
should_full_rescanStampsPeriodicOnly(state, confidence, cfg) ==
    LET reasons == RescanReasons(state, confidence, cfg)
    IN  IF reasons = <<>>
        THEN [state |-> [state EXCEPT !.last_rescan_reason = None],
              ret |-> FALSE]
        ELSE [state |-> [state EXCEPT
                            !.last_full_rescan_move =
                                IF reasons[1] = "periodic"
                                THEN state.move_count
                                ELSE state.last_full_rescan_move,
                            !.rescan_requested = FALSE,
                            !.last_rescan_reason = <<Join(reasons, ",")>>,
                            !.last_event = "full_rescan"],
              ret |-> TRUE]

\* Mutant of should_full_rescan: the rescan move is stamped before the
\* reasons are looked at, so also when none fires.
should_full_rescanAlwaysStamps(state, confidence, cfg) ==
    LET reasons == RescanReasons(state, confidence, cfg)
    IN  IF reasons = <<>>
        THEN [state |-> [state EXCEPT
                            !.last_full_rescan_move = state.move_count,
                            !.last_rescan_reason = None],
              ret |-> FALSE]
        ELSE [state |-> [state EXCEPT
                            !.last_full_rescan_move = state.move_count,
                            !.rescan_requested = FALSE,
                            !.last_rescan_reason = <<Join(reasons, ",")>>,
                            !.last_event = "full_rescan"],
              ret |-> TRUE]

\* The state after the call and the value returned.
should_full_rescan(state, confidence, cfg) ==
    LET reasons == RescanReasons(state, confidence, cfg)
    IN  IF reasons = <<>>
        THEN [state |-> [state EXCEPT !.last_rescan_reason = None],
              ret |-> FALSE]
        ELSE [state |-> [state EXCEPT
                            !.last_full_rescan_move = state.move_count,
                            !.rescan_requested = FALSE,
                            !.last_rescan_reason = <<Join(reasons, ",")>>,
                            !.last_event = "full_rescan"],
              ret |-> TRUE]

\* Mutant of apply_successful_move: a pending rescan request is kept.
apply_successful_moveKeepsRequest(state, pair) ==
    [state EXCEPT
        !.move_count = state.move_count + 1,
        !.consecutive_failures = 0,
        !.last_pair = pair,
        !.last_event = "move_success"]

\* Mutant of apply_successful_move: the move is also recorded as the move
\* of the last full rescan.
apply_successful_moveStampsRescan(state, pair) ==
    [state EXCEPT
        !.move_count = state.move_count + 1,
        !.consecutive_failures = 0,
        !.last_pair = pair,
        !.last_event = "move_success",
        !.rescan_requested = FALSE,
        !.last_full_rescan_move = state.move_count + 1]

apply_successful_move(state, pair) ==
    [state EXCEPT
        !.move_count = state.move_count + 1,
        !.consecutive_failures = 0,
        !.last_pair = pair,
        !.last_event = "move_success",
        !.rescan_requested = FALSE]

\* Mutant of record_failure: the failure is counted but no rescan is
\* requested.
record_failureNoRequest(state) ==
    [state EXCEPT
        !.consecutive_failures = state.consecutive_failures + 1,
        !.last_event = "failure"]

\* Mutant of record_failure: a failure reported while a rescan is still
\* requested is refused, so the streak stops at one.
record_failureRefuses(state) ==
    IF state.rescan_requested THEN state
    ELSE [state EXCEPT
            !.consecutive_failures = state.consecutive_failures + 1,
            !.rescan_requested = TRUE,
            !.last_event = "failure"]

record_failure(state) ==
    [state EXCEPT
        !.consecutive_failures = state.consecutive_failures + 1,
        !.rescan_requested = TRUE,
        !.last_event = "failure"]

(***************************************************************************)
(* The solver's inputs and operations                                      *)
(***************************************************************************)

\* Bounds of the enumerated boards: rows * cols <= MaxCells, values in
\* -1 .. MaxTile.
MaxCells == 4
MaxTile == 2

\* Reserved values -1 (obstacle) and 0 (empty), and the tile ids 1..MaxTile.
TileValues == (-1) .. MaxTile

Shapes == {s \in (1 .. MaxCells) \X (1 .. MaxCells) : s[1] * s[2] <= MaxCells}

\* A board written as in the tests, a tuple of rows.
Grid(rowSeq) ==
    MkBoard(Len(rowSeq), Len(rowSeq[1]),
            [p \in (0 .. (Len(rowSeq) - 1)) \X (0 .. (Len(rowSeq[1]) - 1)) |->
                rowSeq[p[1] + 1][p[2] + 1]])

EnumBoards ==
    UNION {{MkBoard(s[1], s[2], f) :
                f \in [(0 .. (s[1] - 1)) \X (0 .. (s[2] - 1)) -> TileValues]} :
           s \in Shapes}

\* The boards of tests/test_solver.py.
TwoTurnBoard == Grid(<< <<1, 0, -1>>, <<-1, 0, -1>>, <<0, 0, 1>> >>)

BlockedBoard ==
    Grid(<< <<-1, -1, -1, -1, -1>>,
            <<-1,  1, -1,  1, -1>>,
            <<-1, -1, -1, -1, -1>> >>)

OrderBoard == Grid(<< <<1, 0, 1>>, <<2, 0, 2>> >>)

DeadBoard ==
    Grid(<< <<-1, -1, -1, -1, -1>>,
            <<-1,  1, -1,  1, -1>>,
            <<-1, -1, -1, -1, -1>>,
            <<-1,  2, -1,  2, -1>>,
            <<-1, -1, -1, -1, -1>> >>)

TestBoards == {TwoTurnBoard, BlockedBoard, OrderBoard, DeadBoard}

Boards == EnumBoards \cup TestBoards

\* The cells can_connect is called with, in padded coordinates: every cell
\* of the board, two cells of the zero border, and a cell beyond each edge
\* of the padded board.
QueryCells(b) ==
    {<<p[1] + 1, p[2] + 1>> : p \in CellsOf(b)}
        \cup {<<0, 0>>, <<b.rows + 1, b.cols + 1>>}
        \cup {<<-1, 1>>, <<1, -1>>, <<b.rows + 2, 1>>, <<1, b.cols + 2>>}

IdleClassifier == frame = None

IdleCycle ==
    /\ pc = None
    /\ attempt = None
    /\ trace = <<>>
    /\ dry_run = FALSE

IdleSearch ==
    /\ search = None
    /\ expanded = <<>>

IdleLoops ==
    /\ grouping = None
    /\ capture = None
    /\ pointer = <<>>

IdleRuntimeState ==
    /\ rs = None
    /\ conf = None
    /\ tick = FALSE
    /\ streak = 0
    /\ arg_pair = None
    /\ since_rescan = None

IdleController ==
    /\ config = None
    /\ IdleRuntimeState

SolverInit ==
    /\ board \in Boards
    /\ op = "init"
    /\ arg_a = None
    /\ arg_b = None
    /\ ret = None
    /\ IdleController
    /\ IdleClassifier
    /\ IdleCycle
    /\ IdleSearch
    /\ IdleLoops

CanConnect ==
    /\ op = "init"
    /\ \E a \in QueryCells(board), b \in QueryCells(board) :
        /\ op' = "can_connect"
        /\ arg_a' = a
        /\ arg_b' = b
        /\ ret' = can_connect(pad_board(board), a, b)
    /\ UNCHANGED <<board, controller_vars>>
    /\ UNCHANGED <<classifier_vars, cycle_vars, search_vars, loop_vars>>
    /\ UNCHANGED since_rescan

FindPair ==
    /\ op = "init"
    /\ op' = "find_pair"
    /\ ret' = find_pair(board)
    /\ UNCHANGED <<board, arg_a, arg_b, controller_vars>>
    /\ UNCHANGED <<classifier_vars, cycle_vars, search_vars, loop_vars>>
    /\ UNCHANGED since_rescan

SolverNext == CanConnect \/ FindPair

SolverSpec == SolverInit /\ [][SolverNext]_vars

(***************************************************************************)
(* Claims about the solver                                                 *)
(***************************************************************************)

\* The cells strictly between p and q, which lie on one row or one column.
Between(p, q) ==
    IF p[1] = q[1]
    THEN {<<p[1], c>> : c \in {x \in 0 .. (p[2] + q[2]) :
                                  \/ (p[2] < x /\ x < q[2])
                                  \/ (q[2] < x /\ x < p[2])}}
    ELSE {<<r, p[2]>> : r \in {x \in 0 .. (p[1] + q[1]) :
                                  \/ (p[1] < x /\ x < q[1])
                                  \/ (q[1] < x /\ x < p[1])}}

\* A straight segment from p to q whose intermediate cells all hold 0.
Straight(padded, p, q) ==
    /\ p[1] = q[1] \/ p[2] = q[2]
    /\ \A x \in Between(p, q) : padded.cell[x] = 0

\* A path of orthogonal unit steps from a to b through cells holding 0 with
\* at most `turns` changes of direction: at most turns + 1 straight
\* segments, whose corners p1 and p2 are cells of the path.
PathWithin(padded, a, b, turns) ==
    \E p1 \in CellsOf(padded) :
        /\ p1 = a \/ padded.cell[p1] = 0
        /\ Straight(padded, a, p1)
        /\ \E p2 \in CellsOf(padded) :
            /\ p2 = b \/ padded.cell[p2] = 0
            /\ turns < 2 => p1 = a
            /\ turns < 1 => p2 = b
            /\ Straight(padded, p1, p2)
            /\ Straight(padded, p2, b)

\* The state after can_connect ran on two distinct in-bounds cells holding
\* the same positive value.
MatchingQuery ==
    /\ op = "can_connect"
    /\ arg_a # arg_b
    /\ InBounds(pad_board(board), arg_a[1], arg_a[2])
    /\ InBounds(pad_board(board), arg_b[1], arg_b[2])
    /\ pad_board(board).cell[arg_a] > 0
    /\ pad_board(board).cell[arg_a] = pad_board(board).cell[arg_b]

\* C1: for two distinct in-bounds cells holding the same positive value,
\* can_connect returns true exactly when a path of orthogonal unit steps
\* through cells holding 0 joins them with at most two changes of direction.
C1_ConnectIffTwoTurnPath ==
    MatchingQuery => (ret = PathWithin(pad_board(board), arg_a, arg_b, 2))

\* can_connect returned true for a pair that no path with fewer than two
\* turns joins.
C1_Witness ==
    /\ MatchingQuery
    /\ ret = TRUE
    /\ ~PathWithin(pad_board(board), arg_a, arg_b, 1)

\* C2: can_connect is symmetric in its two cells, whatever they are.
C2_Symmetric ==
    op = "can_connect" => ret = can_connect(pad_board(board), arg_b, arg_a)

\* A connectable pair whose second cell lies before the first in row-major
\* order, joined by no straight line.
C2_Witness ==
    /\ MatchingQuery
    /\ ret = TRUE
    /\ arg_b[1] < arg_a[1]
    /\ ~PathWithin(pad_board(board), arg_a, arg_b, 0)

\* The early exits of can_connect: equal cells, a cell outside the padded
\* board, a value <= 0, or two different values.
Rejected(padded, a, b) ==
    \/ a = b
    \/ ~InBounds(padded, a[1], a[2])
    \/ ~InBounds(padded, b[1], b[2])
    \/ padded.cell[a] <= 0
    \/ padded.cell[b] <= 0
    \/ padded.cell[a] # padded.cell[b]

\* C3: can_connect returns false when the cells are equal, one is outside
\* the padded board, one holds a value <= 0, or the values differ.
C3_RejectsBadPairs ==
    (op = "can_connect" /\ Rejected(pad_board(board), arg_a, arg_b))
        => ret = FALSE

\* Two distinct positive cells of different values with only empty cells
\* between them on one row: rejected although a clear line joins them.
C3_Witness ==
    /\ op = "can_connect"
    /\ ret = FALSE
    /\ arg_a # arg_b
    /\ InBounds(pad_board(board), arg_a[1], arg_a[2])
    /\ InBounds(pad_board(board), arg_b[1], arg_b[2])
    /\ pad_board(board).cell[arg_a] > 0
    /\ pad_board(board).cell[arg_b] > 0
    /\ pad_board(board).cell[arg_a] # pad_board(board).cell[arg_b]
    /\ Straight(pad_board(board), arg_a, arg_b)

\* Row-major order on cells, and the lexicographic order on
\* (r1, c1, r2, c2).
CellBefore(p, q) == p[1] < q[1] \/ (p[1] = q[1] /\ p[2] < q[2])

PairBefore(x, y) ==
    \/ CellBefore(x[1], y[1])
    \/ (x[1] = y[1] /\ CellBefore(x[2], y[2]))

\* The pairs find_pair may return: two cells in row-major order holding the
\* same positive value that can_connect joins on the padded board.
ValidPairs(b) ==
    {x \in CellsOf(b) \X CellsOf(b) :
        /\ CellBefore(x[1], x[2])
        /\ b.cell[x[1]] > 0
        /\ b.cell[x[1]] = b.cell[x[2]]
        /\ can_connect(pad_board(b),
                       <<x[1][1] + 1, x[1][2] + 1>>,
                       <<x[2][1] + 1, x[2][2] + 1>>)}

\* C4: a pair returned by find_pair is a valid pair, and no valid pair
\* comes before it in the order of (r1, c1, r2, c2).
C4_FirstPairInScanOrder ==
    (op = "find_pair" /\ ret # None) =>
        /\ ret \in ValidPairs(board)
        /\ \A x \in ValidPairs(board) : ~PairBefore(x, ret)
        /\ board = OrderBoard => ret = <<<<0, 0>>, <<0, 2>>>>

\* find_pair returned a pair although a later pair of another value is
\* valid too.
C4_Witness ==
    /\ op = "find_pair"
    /\ ret # None
    /\ \E x \in ValidPairs(board) :
        /\ PairBefore(ret, x)
        /\ board.cell[x[1]] # board.cell[ret[1]]

\* Two distinct cells of the board holding the same positive value, in
\* either order, that can_connect joins.
Connectable(b) ==
    \E p \in CellsOf(b), q \in CellsOf(b) :
        /\ p # q
        /\ b.cell[p] > 0
        /\ b.cell[p] = b.cell[q]
        /\ can_connect(pad_board(b), <<p[1] + 1, p[2] + 1>>,
                       <<q[1] + 1, q[2] + 1>>)

\* C5: find_pair returns none exactly when no two distinct cells with equal
\* positive values are connectable.
C5_NoneIffDeadBoard ==
    op = "find_pair" => ((ret = None) <=> ~Connectable(board))

\* Every positive tile of the board is enclosed by obstacles on its four
\* sides.
BoxedIn(b) ==
    \A p \in CellsOf(b) :
        b.cell[p] > 0 =>
            \A d \in DirIdx :
                LET q == <<p[1] + DIRS[d + 1][1], p[2] + DIRS[d + 1][2]>>
                IN  q \in CellsOf(b) /\ b.cell[q] = -1

\* find_pair returned none on a board holding two tiles of one value, each
\* boxed in by obstacles.
C5_Witness ==
    /\ op = "find_pair"
    /\ ret = None
    /\ BoxedIn(board)
    /\ \E p \in CellsOf(board), q \in CellsOf(board) :
        p # q /\ board.cell[p] > 0 /\ board.cell[p] = board.cell[q]

\* Two padded cells that lie on one outer edge of the board: both in its
\* first row, both in its last row, both in its first column, or both in its
\* last column.
SameOuterEdge(b, p, q) ==
    \/ p[1] = 1 /\ q[1] = 1
    \/ p[1] = b.rows /\ q[1] = b.rows
    \/ p[2] = 1 /\ q[2] = 1
    \/ p[2] = b.cols /\ q[2] = b.cols

\* C21: two distinct cells holding the same positive value that lie on the
\* same outer edge of the board are reported connectable by can_connect on
\* the padded coordinates, whatever the other cells hold.
C21_EdgePairsConnect ==
    (MatchingQuery /\ SameOuterEdge(board, arg_a, arg_b)) => ret = TRUE

\* can_connect returned true for two cells of one edge with an obstacle
\* between them, which no path with fewer than two turns joins.
C21_Witness ==
    /\ MatchingQuery
    /\ SameOuterEdge(board, arg_a, arg_b)
    /\ ret = TRUE
    /\ arg_a[1] = arg_b[1]
    /\ \E c \in 1 .. board.cols :
        /\ arg_a[2] < c /\ c < arg_b[2]
        /\ pad_board(board).cell[<<arg_a[1], c>>] = -1
    /\ ~PathWithin(pad_board(board), arg_a, arg_b, 1)

(***************************************************************************)
(* The controller's inputs and operations                                  *)
(***************************************************************************)

\* Bounds of the controller runs: the counters are capped, and the inputs
\* are drawn from small sets.
MaxMoves == 5
MaxFailures == 2
MaxEveryN == 5
MaxLevel == 1
MaxConfCells == 2

\* Confidence values and thresholds, as levels.
Levels == 0 .. MaxLevel

\* The confidence maps, the one with zero cells included.
ConfidenceMaps == UNION {[1 .. n -> Levels] : n \in 0 .. MaxConfCells}

\* The configurations validation accepts, as far as the controller and its
\* caller read them: full_rescan_every_n_moves > 0, and
\* max_consecutive_failures > 0, kept below the cap of the failure counter
\* so that the runs go past it.
Configs ==
    [full_rescan_every_n_moves : 1 .. MaxEveryN,
     match_threshold : Levels,
     max_consecutive_failures : 1 .. (MaxFailures - 1)]

\* The pairs apply_successful_move is called with.
MovePairs == {<<<<0, 0>>, <<0, 2>>>>, <<<<0, 1>>, <<2, 2>>>>}

IdleSolver ==
    /\ board = None
    /\ arg_a = None
    /\ arg_b = None

ControllerInit ==
    /\ config \in Configs
    /\ rs = init_runtime_state(config)
    /\ conf = None
    /\ tick = FALSE
    /\ streak = 0
    /\ arg_pair = None
    /\ since_rescan = None
    /\ op = "init"
    /\ ret = None
    /\ IdleSolver
    /\ IdleClassifier
    /\ IdleCycle
    /\ IdleSearch
    /\ IdleLoops

ShouldFullRescan ==
    /\ \E confidence \in ConfidenceMaps :
        LET out == should_full_rescan(rs, confidence, config)
        IN  /\ rs' = out.state
            /\ ret' = out.ret
            /\ conf' = confidence
            /\ since_rescan' = IF out.ret THEN <<0>> ELSE since_rescan
    /\ op' = "should_full_rescan"
    /\ tick' = ~tick
    /\ arg_pair' = None
    /\ UNCHANGED <<config, streak, board, arg_a, arg_b>>
    /\ UNCHANGED <<classifier_vars, cycle_vars, search_vars, loop_vars>>

ApplySuccessfulMove ==
    /\ rs.move_count < MaxMoves
    /\ \E p \in MovePairs :
        /\ rs' = apply_successful_move(rs, p)
        /\ arg_pair' = p
    /\ op' = "apply_successful_move"
    /\ ret' = None
    /\ conf' = None
    /\ tick' = ~tick
    /\ streak' = 0
    /\ since_rescan' = IF since_rescan = None THEN None
                       ELSE <<since_rescan[1] + 1>>
    /\ UNCHANGED <<config, board, arg_a, arg_b>>
    /\ UNCHANGED <<classifier_vars, cycle_vars, search_vars, loop_vars>>

RecordFailure ==
    /\ rs.consecutive_failures < MaxFailures
    /\ rs' = record_failure(rs)
    /\ op' = "record_failure"
    /\ ret' = None
    /\ conf' = None
    /\ tick' = ~tick
    /\ streak' = streak + 1
    /\ arg_pair' = None
    /\ UNCHANGED <<config, board, arg_a, arg_b>>
    /\ UNCHANGED <<classifier_vars, cycle_vars, search_vars, loop_vars>>
    /\ UNCHANGED since_rescan

ControllerNext == ShouldFullRescan \/ ApplySuccessfulMove \/ RecordFailure

ControllerSpec == ControllerInit /\ [][ControllerNext]_vars

(***************************************************************************)
(* Claims about the controller                                             *)
(***************************************************************************)

\* The four triggers, read off a RuntimeState, a confidence map and a
\* configuration.
PeriodicDue(state, cfg) ==
    /\ state.move_count > 0
    /\ state.move_count - state.last_full_rescan_move
           >= cfg.full_rescan_every_n_moves

EmptyConfidence(confidence) == Len(confidence) = 0

LowConfidence(confidence, cfg) ==
    \E i \in DOMAIN confidence : confidence[i] < cfg.match_threshold

AnyTrigger(state, confidence, cfg) ==
    \/ PeriodicDue(state, cfg)
    \/ state.rescan_requested
    \/ EmptyConfidence(confidence)
    \/ LowConfidence(confidence, cfg)

\* A non-empty confidence map with every value >= match_threshold.
Healthy(confidence, cfg) ==
    ~EmptyConfidence(confidence) /\ ~LowConfidence(confidence, cfg)

\* s contains t, as Python's `t in s` on strings.
HasSubstring(s, t) ==
    \E i \in 1 .. (Len(s) - Len(t) + 1) : SubSeq(s, i, i + Len(t) - 1) = t

\* Two should_full_rescan calls in a row with the same confidence map, the
\* first of which returned true.
RepeatedAfterTrigger ==
    /\ op = "should_full_rescan"
    /\ ret = TRUE
    /\ op' = "should_full_rescan"
    /\ conf' = conf

\* C6 as stated: after a call that returned true, the next call with the
\* same confidence map and configuration returns false.
C6_SecondCallFalse == [][RepeatedAfterTrigger => ret' = FALSE]_vars

\* C6 amended: after a call that returned true, the next call with the same
\* confidence map and configuration returns false if the map is non-empty
\* with every value >= match_threshold, and true again if the map is empty
\* or holds a value below match_threshold.
C6_SecondCallFalseWhenHealthy ==
    [][RepeatedAfterTrigger => (ret' = ~Healthy(conf, config))]_vars

\* A call that returned false on a healthy confidence map right after a
\* triggered rescan: no move or failure came in between, and the reason of
\* that rescan is cleared.
C6_Witness ==
    /\ op = "should_full_rescan"
    /\ ret = FALSE
    /\ Healthy(conf, config)
    /\ rs.last_event = "full_rescan"
    /\ rs.last_rescan_reason = None

\* The comma-joined reasons, written out for each combination of triggers.
ExpectedReason(periodic, failure, empty, low) ==
    CASE periodic /\ failure /\ empty ->
             "periodic,failure_or_mismatch,empty_confidence"
      [] periodic /\ failure /\ low ->
             "periodic,failure_or_mismatch,low_confidence"
      [] periodic /\ failure /\ ~empty /\ ~low ->
             "periodic,failure_or_mismatch"
      [] periodic /\ ~failure /\ empty -> "periodic,empty_confidence"
      [] periodic /\ ~failure /\ low -> "periodic,low_confidence"
      [] periodic /\ ~failure /\ ~empty /\ ~low -> "periodic"
      [] ~periodic /\ failure /\ empty ->
             "failure_or_mismatch,empty_confidence"
      [] ~periodic /\ failure /\ low -> "failure_or_mismatch,low_confidence"
      [] ~periodic /\ failure /\ ~empty /\ ~low -> "failure_or_mismatch"
      [] ~periodic /\ ~failure /\ empty -> "empty_confidence"
      [] ~periodic /\ ~failure /\ low -> "low_confidence"
      [] OTHER -> ""

\* C7: should_full_rescan returns true exactly when a trigger holds
\* (periodic, failure_or_mismatch, empty_confidence, low_confidence), and
\* then last_rescan_reason is the comma-joined list of the triggers that
\* hold, in that order.
C7_TriggersAndReason ==
    [][op' = "should_full_rescan" =>
        /\ ret' = AnyTrigger(rs, conf', config)
        /\ ret' = TRUE =>
            rs'.last_rescan_reason =
                <<ExpectedReason(PeriodicDue(rs, config), rs.rescan_requested,
                                 EmptyConfidence(conf'),
                                 LowConfidence(conf', config))>>]_vars

\* The example of the claim: every 5 moves, at move 5, on a healthy map,
\* with no rescan before (a rescan at a move between 1 and 4 would have
\* left fewer than 5 moves since), the reason is "periodic".
C7_Witness ==
    /\ op = "should_full_rescan"
    /\ ret = TRUE
    /\ config.full_rescan_every_n_moves = 5
    /\ rs.move_count = 5
    /\ Healthy(conf, config)
    /\ rs.last_rescan_reason = <<"periodic">>

\* C8: a call that returns true sets last_full_rescan_move to move_count,
\* clears rescan_requested, sets last_event to "full_rescan", and leaves
\* move_count, consecutive_failures and last_pair as they were.
C8_TriggeredEffect ==
    [][(op' = "should_full_rescan" /\ ret' = TRUE) =>
        /\ rs'.last_full_rescan_move = rs.move_count
        /\ rs'.rescan_requested = FALSE
        /\ rs'.last_event = "full_rescan"
        /\ rs'.move_count = rs.move_count
        /\ rs'.consecutive_failures = rs.consecutive_failures
        /\ rs'.last_pair = rs.last_pair]_vars

\* A triggered rescan in a run that has moved and is in a failure streak.
C8_Witness ==
    /\ op = "should_full_rescan"
    /\ ret = TRUE
    /\ rs.last_event = "full_rescan"
    /\ rs.move_count > 0
    /\ rs.last_full_rescan_move = rs.move_count
    /\ rs.consecutive_failures > 1
    /\ rs.last_pair # None

\* C9: when no trigger holds, should_full_rescan returns false and changes
\* nothing but last_rescan_reason, which becomes none.
C9_UntriggeredEffect ==
    [][(op' = "should_full_rescan" /\ ~AnyTrigger(rs, conf', config)) =>
        /\ ret' = FALSE
        /\ rs' = [rs EXCEPT !.last_rescan_reason = None]]_vars

\* A call that returned false after a move that followed an earlier rescan:
\* the earlier rescan's move is still recorded.
C9_Witness ==
    /\ op = "should_full_rescan"
    /\ ret = FALSE
    /\ rs.last_event = "move_success"
    /\ rs.last_full_rescan_move > 0
    /\ rs.last_full_rescan_move < rs.move_count
    /\ rs.last_pair # None
    /\ rs.last_rescan_reason = None

\* C10: should_full_rescan called right after record_failure returns true,
\* with a reason that includes "failure_or_mismatch", and leaves
\* rescan_requested false, whatever the confidence map.
C10_FailureThenRescan ==
    [][(op = "record_failure" /\ op' = "should_full_rescan") =>
        /\ ret' = TRUE
        /\ rs'.last_rescan_reason # None
        /\ HasSubstring(rs'.last_rescan_reason[1], "failure_or_mismatch")
        /\ rs'.rescan_requested = FALSE]_vars

\* A rescan on a healthy confidence map whose only reason is the failure
\* recorded before it.
C10_Witness ==
    /\ op = "should_full_rescan"
    /\ ret = TRUE
    /\ Healthy(conf, config)
    /\ rs.consecutive_failures > 0
    /\ rs.last_rescan_reason = <<"failure_or_mismatch">>
    /\ rs.rescan_requested = FALSE

\* C11: apply_successful_move(state, pair) adds one to move_count, sets
\* consecutive_failures to 0 whatever it was, sets last_pair to the pair,
\* last_event to "move_success" and rescan_requested to false, and leaves
\* last_full_rescan_move and last_rescan_reason as they were.
C11_SuccessfulMoveEffect ==
    [][op' = "apply_successful_move" =>
        /\ arg_pair' \in MovePairs
        /\ rs' = [move_count |-> rs.move_count + 1,
                  consecutive_failures |-> 0,
                  last_pair |-> arg_pair',
                  last_event |-> "move_success",
                  rescan_requested |-> FALSE,
                  last_full_rescan_move |-> rs.last_full_rescan_move,
                  last_rescan_reason |-> rs.last_rescan_reason]]_vars

\* A successful move recorded after an earlier move, a rescan with a reason
\* and later failures: the streak is back at 0 while the reason and the
\* rescan's move are still there.  The failures before the move show in
\* the rescan reason.
C11_Witness ==
    /\ op = "apply_successful_move"
    /\ rs.move_count >= 2
    /\ rs.consecutive_failures = 0
    /\ rs.last_full_rescan_move = 1
    /\ rs.last_rescan_reason # None
    /\ HasSubstring(rs.last_rescan_reason[1], "failure_or_mismatch")
    /\ arg_pair = <<<<0, 1>>, <<2, 2>>>>
    /\ rs.last_pair = arg_pair

\* C12: consecutive_failures is the number of record_failure calls since
\* the last apply_successful_move (or since the start); should_full_rescan
\* never changes it; and record_failure adds one to it also when it has
\* reached or passed max_consecutive_failures.
C12_StreakTrackedNeverEnforced ==
    /\ [](rs.consecutive_failures = streak)
    /\ [][/\ op' = "should_full_rescan" =>
                rs'.consecutive_failures = rs.consecutive_failures
          /\ (/\ op' = "record_failure"
              /\ rs.consecutive_failures >= config.max_consecutive_failures) =>
                rs'.consecutive_failures = rs.consecutive_failures + 1]_vars

\* A failure recorded when the counter had already reached
\* max_consecutive_failures, after an earlier successful move.
C12_Witness ==
    /\ op = "record_failure"
    /\ rs.consecutive_failures > config.max_consecutive_failures
    /\ streak = rs.consecutive_failures
    /\ rs.move_count > 0

CountersInvariant ==
    /\ 0 <= rs.last_full_rescan_move
    /\ rs.last_full_rescan_move <= rs.move_count
    /\ rs.consecutive_failures >= 0

\* C25: in every state reached from init_runtime_state by should_full_rescan,
\* apply_successful_move and record_failure calls, 0 <=
\* last_full_rescan_move <= move_count and consecutive_failures >= 0, and
\* no call decreases move_count.
C25_CountersOrdered ==
    []CountersInvariant /\ [][rs'.move_count >= rs.move_count]_vars

\* Moves were made since the last rescan, which itself followed a move, and
\* failures are being counted.
C25_Witness ==
    /\ 0 < rs.last_full_rescan_move
    /\ rs.last_full_rescan_move < rs.move_count
    /\ rs.consecutive_failures > 0

\* The should_full_rescan call of this step reported the periodic trigger.
ReportsPeriodic ==
    /\ op' = "should_full_rescan"
    /\ rs'.last_rescan_reason # None
    /\ HasSubstring(rs'.last_rescan_reason[1], "periodic")

\* C26: once a should_full_rescan call has returned true, for whatever
\* reason, no later should_full_rescan call reports "periodic" before at
\* least full_rescan_every_n_moves further apply_successful_move calls were
\* made; the moves since the last triggered rescan are move_count -
\* last_full_rescan_move.
C26_TriggerRestartsCadence ==
    /\ [](since_rescan # None =>
            rs.move_count - rs.last_full_rescan_move = since_rescan[1])
    /\ [][(ReportsPeriodic /\ since_rescan # None) =>
            since_rescan[1] >= config.full_rescan_every_n_moves]_vars

\* A rescan was triggered by a failure alone, after a move, and
\* full_rescan_every_n_moves >= 2 moves later the periodic trigger is due
\* again.
C26_Witness ==
    /\ since_rescan # None
    /\ config.full_rescan_every_n_moves >= 2
    /\ since_rescan[1] = config.full_rescan_every_n_moves
    /\ rs.last_full_rescan_move > 0
    /\ rs.last_rescan_reason = <<"failure_or_mismatch">>
    /\ PeriodicDue(rs, config)

\* The should_full_rescan call of this step reported a failure.
ReportsFailure ==
    /\ op' = "should_full_rescan"
    /\ rs'.last_rescan_reason # None
    /\ HasSubstring(rs'.last_rescan_reason[1], "failure_or_mismatch")

\* C28: in every state reached from init_runtime_state by the three
\* controller operations, rescan_requested is true exactly when last_event
\* is "failure"; so apply_successful_move drops a pending request, and
\* should_full_rescan reports "failure_or_mismatch" only when the call
\* before it was record_failure.
C28_RequestIffLastEventFailure ==
    /\ [](rs.rescan_requested <=> rs.last_event = "failure")
    /\ [][/\ ReportsFailure => op = "record_failure"
          /\ (op' = "apply_successful_move" /\ rs.rescan_requested) =>
                ~rs'.rescan_requested /\ rs'.last_event = "move_success"]_vars

\* A request is pending after a failure that followed moves and a rescan,
\* and a move can still be recorded.
C28_Witness ==
    /\ op = "record_failure"
    /\ rs.rescan_requested
    /\ rs.last_event = "failure"
    /\ since_rescan # None
    /\ 0 < rs.move_count
    /\ rs.move_count < MaxMoves

(***************************************************************************)
(* bot/classify.py                                                         *)
(*                                                                         *)
(* Encodings.  A float is a fraction [num, den] with den > 0, so that a    *)
(* mean is exact.  A cell image is a record of what the classifier         *)
(* measures on it: size (its pixel count), block_diff (the mean absolute   *)
(* difference to the block template over 255), pink (the share of pink     *)
(* pixels in the centre crop), texture (the standard deviation of its      *)
(* grey levels) and gray (its prepared grey pattern).  A frame maps each   *)
(* cell to the image crop_cell cuts out for it.  Python lists are          *)
(* sequences, so the union-find's indices run from 1.                      *)
(***************************************************************************)

Frac(n, d) == [num |-> n, den |-> d]

Half(n) == Frac(n, 2)

Leq(x, y) == x.num * y.den <= y.num * x.den

FracAdd(x, y) == Frac(x.num * y.den + y.num * x.den, x.den * y.den)

\* Python's max(x, y): the first of two equal values.
FracMax(x, y) == IF Leq(y, x) THEN x ELSE y

UNRESOLVED_TILE == -2

_prepare_for_match(image) == image.gray

\* 1 - mean(|cell - template|) / 255, for the block template.
_score_similarity(cell_img) ==
    Frac(cell_img.block_diff.den - cell_img.block_diff.num,
         cell_img.block_diff.den)

_texture_std(cell_img) == cell_img.texture

_pink_ratio(cell_img) == IF cell_img.size = 0 THEN Frac(0, 1) ELSE cell_img.pink

classify_block_or_empty(cell_img, cfg) ==
    IF cell_img.size = 0 THEN <<0, Frac(0, 1)>>
    ELSE
        LET block_score == _score_similarity(cell_img)
            pink_ratio == _pink_ratio(cell_img)
            texture_std == _texture_std(cell_img)
        IN  IF Leq(cfg.block_match_threshold, block_score)
            THEN <<-1, block_score>>
            ELSE IF /\ Leq(cfg.empty_pink_ratio_threshold, pink_ratio)
                    /\ texture_std <= cfg.empty_texture_threshold
            THEN <<0, pink_ratio>>
            ELSE <<UNRESOLVED_TILE, FracMax(block_score, pink_ratio)>>

\* TM_CCOEFF_NORMED of two prepared images of one size: the correlation of
\* their mean-removed patterns.  A pattern is a phase k, standing for the
\* unit vector at k * 60 degrees in one plane of pattern space, so the
\* correlation is the cosine of the angle between the two.
_pair_similarity(a, b) ==
    LET d == IF a >= b THEN a - b ELSE b - a
    IN  CASE d % 6 = 0 -> Half(2)
          [] d % 6 \in {1, 5} -> Half(1)
          [] d % 6 \in {2, 4} -> Half(-1)
          [] d % 6 = 3 -> Half(-2)

\* Python's order on (row, col) tuples.
TupleLess(a, b) == a[1] < b[1] \/ (a[1] = b[1] /\ a[2] < b[2])

\* sorted(S) for a set of cells.
RECURSIVE SortedCells(_)
SortedCells(S) ==
    IF S = {} THEN <<>>
    ELSE
        LET least == CHOOSE x \in S : \A y \in S \ {x} : TupleLess(x, y)
        IN  <<least>> \o SortedCells(S \ {least})

\* find(idx), with the path halving it does on the way: the parent list
\* after the call, and the root.
RECURSIVE find(_, _)
find(parent, idx) ==
    IF parent[idx] = idx THEN [parent |-> parent, root |-> idx]
    ELSE
        LET halved == [parent EXCEPT ![idx] = parent[parent[idx]]]
        IN  find(halved, halved[idx])

\* Mutant of union: the second root is not attached to the first.
unionNeverJoins(parent, a_idx, b_idx) ==
    find(find(parent, a_idx).parent, b_idx).parent

\* Mutant of union: the cell b_idx itself, not its root, is attached.
unionAttachesCell(parent, a_idx, b_idx) ==
    LET fa == find(parent, a_idx)
        fb == find(fa.parent, b_idx)
    IN  IF fa.root # fb.root
        THEN [fb.parent EXCEPT ![b_idx] = fa.root]
        ELSE fb.parent

\* union(a_idx, b_idx): the parent list after the call.
union(parent, a_idx, b_idx) ==
    LET fa == find(parent, a_idx)
        fb == find(fa.parent, b_idx)
    IN  IF fa.root # fb.root
        THEN [fb.parent EXCEPT ![fb.root] = fa.root]
        ELSE fb.parent

\* pair_scores, for the sorted cells and their prepared images.
PairScores(cells, prepared) ==
    LET n == Len(cells)
    IN  [q \in {<<cells[ij[1]], cells[ij[2]]>> :
                    ij \in {x \in (1 .. n) \X (1 .. n) : x[1] < x[2]}} |->
            _pair_similarity(prepared[q[1]], prepared[q[2]])]

\* The double loop over i < j, from (i, j) on: the parent list after it.
RECURSIVE UnionPairs(_, _, _, _, _, _)
UnionPairs(cells, prepared, threshold, parent, i, j) ==
    IF i > Len(cells) THEN parent
    ELSE IF j > Len(cells)
    THEN UnionPairs(cells, prepared, threshold, parent, i + 1, i + 2)
    ELSE
        LET sim == _pair_similarity(prepared[cells[i]], prepared[cells[j]])
        IN  UnionPairs(cells, prepared, threshold,
                       IF Leq(threshold, sim) THEN union(parent, i, j)
                       ELSE parent,
                       i, j + 1)

\* The loop that files each cell under its root, from the k-th cell on.
\* `groups` is the dictionary as the sequence of its (root, cells) items in
\* insertion order.
RECURSIVE CollectGroups(_, _, _, _)
CollectGroups(cells, parent, k, groups) ==
    IF k > Len(cells) THEN groups
    ELSE
        LET f == find(parent, k)
            known == {g \in 1 .. Len(groups) : groups[g][1] = f.root}
            filed ==
                IF known = {}
                THEN Append(groups, <<f.root, <<cells[k]>>>>)
                ELSE [g \in 1 .. Len(groups) |->
                        IF g \in known
                        THEN <<groups[g][1], Append(groups[g][2], cells[k])>>
                        ELSE groups[g]]
        IN  CollectGroups(cells, f.parent, k + 1, filed)

\* sorted(gs, key=lambda g: g[0]): Python's sort is stable.
RECURSIVE SortGroups(_)
SortGroups(gs) ==
    IF gs = <<>> THEN <<>>
    ELSE
        LET first ==
                CHOOSE g \in 1 .. Len(gs) :
                    \A h \in 1 .. Len(gs) :
                        \/ TupleLess(gs[g][1], gs[h][1])
                        \/ (gs[g][1] = gs[h][1] /\ g <= h)
            rest == [h \in 1 .. (Len(gs) - 1) |->
                        IF h < first THEN gs[h] ELSE gs[h + 1]]
        IN  <<gs[first]>> \o SortGroups(rest)

RECURSIVE FracSum(_, _)
FracSum(xs, k) ==
    IF k > Len(xs) THEN Frac(0, 1) ELSE FracAdd(xs[k], FracSum(xs, k + 1))

\* float(np.mean(xs)) of a non-empty list.
Mean(xs) ==
    LET total == FracSum(xs, 1)
    IN  Frac(total.num, total.den * Len(xs))

\* The similarities of `cell` to the other cells of its group, in the
\* group's order; a pair missing from pair_scores counts 0.0.
RECURSIVE GroupSims(_, _, _, _)
GroupSims(pair_scores, group_cells, cell, k) ==
    IF k > Len(group_cells) THEN <<>>
    ELSE IF group_cells[k] = cell
    THEN GroupSims(pair_scores, group_cells, cell, k + 1)
    ELSE
        LET other == group_cells[k]
            key == IF TupleLess(cell, other) THEN <<cell, other>>
                   ELSE <<other, cell>>
            sim == IF key \in DOMAIN pair_scores THEN pair_scores[key]
                   ELSE Frac(0, 1)
        IN  <<sim>> \o GroupSims(pair_scores, group_cells, cell, k + 1)

SeqRange(xs) == {xs[k] : k \in 1 .. Len(xs)}

\* Mutant of AssignIds: an ambiguous group uses up an id as well.
RECURSIVE AssignIdsCountsAmbiguous(_, _, _, _, _)
AssignIdsCountsAmbiguous(sorted_groups, pair_scores, g, next_id, out) ==
    IF g > Len(sorted_groups) THEN out
    ELSE
        LET group_cells == sorted_groups[g]
            group_size == Len(group_cells)
            members == SeqRange(group_cells)
        IN  IF group_size < 2 \/ group_size % 2 # 0
            THEN AssignIdsCountsAmbiguous(sorted_groups, pair_scores, g + 1,
                    next_id + 1,
                    [ids |-> [c \in members |-> 0] @@ out.ids,
                     confidence |->
                        [c \in members |-> Frac(0, 1)] @@ out.confidence])
            ELSE AssignIdsCountsAmbiguous(sorted_groups, pair_scores, g + 1,
                    next_id + 1,
                    [ids |-> [c \in members |-> next_id] @@ out.ids,
                     confidence |->
                        [c \in members |->
                            LET sims ==
                                    GroupSims(pair_scores, group_cells, c, 1)
                            IN  IF sims # <<>> THEN Mean(sims)
                                ELSE Frac(1, 1)] @@ out.confidence])

\* Mutant of AssignIds: a group of odd size >= 3 gets an id as well.
RECURSIVE AssignIdsAcceptsOdd(_, _, _, _, _)
AssignIdsAcceptsOdd(sorted_groups, pair_scores, g, next_id, out) ==
    IF g > Len(sorted_groups) THEN out
    ELSE
        LET group_cells == sorted_groups[g]
            group_size == Len(group_cells)
            members == SeqRange(group_cells)
        IN  IF group_size < 2
            THEN AssignIdsAcceptsOdd(sorted_groups, pair_scores, g + 1,
                    next_id,
                    [ids |-> [c \in members |-> 0] @@ out.ids,
                     confidence |->
                        [c \in members |-> Frac(0, 1)] @@ out.confidence])
            ELSE AssignIdsAcceptsOdd(sorted_groups, pair_scores, g + 1,
                    next_id + 1,
                    [ids |-> [c \in members |-> next_id] @@ out.ids,
                     confidence |->
                        [c \in members |->
                            LET sims ==
                                    GroupSims(pair_scores, group_cells, c, 1)
                            IN  IF sims # <<>> THEN Mean(sims)
                                ELSE Frac(1, 1)] @@ out.confidence])

\* The loop over sorted_groups from the g-th group on; `out` holds the ids
\* and confidence dictionaries.
RECURSIVE AssignIds(_, _, _, _, _)
AssignIds(sorted_groups, pair_scores, g, next_id, out) ==
    IF g > Len(sorted_groups) THEN out
    ELSE
        LET group_cells == sorted_groups[g]
            group_size == Len(group_cells)
            members == SeqRange(group_cells)
        IN  IF group_size < 2 \/ group_size % 2 # 0
            THEN AssignIds(sorted_groups, pair_scores, g + 1, next_id,
                    [ids |-> [c \in members |-> 0] @@ out.ids,
                     confidence |->
                        [c \in members |-> Frac(0, 1)] @@ out.confidence])
            ELSE AssignIds(sorted_groups, pair_scores, g + 1, next_id + 1,
                    [ids |-> [c \in members |-> next_id] @@ out.ids,
                     confidence |->
                        [c \in members |->
                            LET sims ==
                                    GroupSims(pair_scores, group_cells, c, 1)
                            IN  IF sims # <<>> THEN Mean(sims)
                                ELSE Frac(1, 1)] @@ out.confidence])

\* The (ids, confidence) pair returned for the dictionary cell_imgs.
group_tiles_by_similarity(cell_imgs, cfg) ==
    IF DOMAIN cell_imgs = {} THEN [ids |-> <<>>, confidence |-> <<>>]
    ELSE
        LET threshold == cfg.tile_similarity_threshold
            cells == SortedCells(DOMAIN cell_imgs)
            prepared ==
                [c \in DOMAIN cell_imgs |-> _prepare_for_match(cell_imgs[c])]
            parent == UnionPairs(cells, prepared, threshold,
                                 [k \in 1 .. Len(cells) |-> k], 1, 2)
            groups == CollectGroups(cells, parent, 1, <<>>)
            sorted_groups ==
                SortGroups([g \in 1 .. Len(groups) |-> groups[g][2]])
        IN  AssignIds(sorted_groups, PairScores(cells, prepared), 1, 1,
                      [ids |-> <<>>, confidence |-> <<>>])

\* crop_cell(frame, row, col, config).
crop_cell(fr, row, col) == fr[<<row, col>>]

\* The cells of the first pass that stay unresolved, with their images.
UnresolvedCells(fr, cfg) ==
    LET all == (0 .. (cfg.rows - 1)) \X (0 .. (cfg.cols - 1))
        open == {p \in all :
                    classify_block_or_empty(crop_cell(fr, p[1], p[2]), cfg)[1]
                        = UNRESOLVED_TILE}
    IN  [p \in open |-> crop_cell(fr, p[1], p[2])]

\* The (board, confidence) pair returned; the confidence map is written as
\* a board of floats.
classify_board(fr, cfg) ==
    LET all == (0 .. (cfg.rows - 1)) \X (0 .. (cfg.cols - 1))
        first == [p \in all |->
                    classify_block_or_empty(crop_cell(fr, p[1], p[2]), cfg)]
        grouped == group_tiles_by_similarity(UnresolvedCells(fr, cfg), cfg)
    IN  [board |->
            MkBoard(cfg.rows, cfg.cols,
                    [p \in all |->
                        IF p \in DOMAIN grouped.ids THEN grouped.ids[p]
                        ELSE IF first[p][1] = UNRESOLVED_TILE THEN 0
                        ELSE first[p][1]]),
         confidence |->
            MkBoard(cfg.rows, cfg.cols,
                    [p \in all |->
                        IF p \in DOMAIN grouped.ids
                        THEN IF p \in DOMAIN grouped.confidence
                             THEN grouped.confidence[p]
                             ELSE Frac(0, 1)
                        ELSE IF first[p][1] = UNRESOLVED_TILE
                        THEN Frac(0, 1)
                        ELSE first[p][2]])]

(***************************************************************************)
(* The classifier's inputs and operations                                  *)
(***************************************************************************)

\* The images crop_cell can cut out: an obstacle, a flat pink cell, a crop
\* of no pixels, and a textured tile for each phase of its grey pattern.
BlockImage ==
    [size |-> 1, block_diff |-> Half(0), pink |-> Half(0), texture |-> 0,
     gray |-> 0]

PinkImage ==
    [size |-> 1, block_diff |-> Half(1), pink |-> Half(2), texture |-> 0,
     gray |-> 0]

EmptyCrop ==
    [size |-> 0, block_diff |-> Half(2), pink |-> Half(0), texture |-> 0,
     gray |-> 0]

TileImage(k) ==
    [size |-> 1, block_diff |-> Half(2), pink |-> Half(0), texture |-> 9,
     gray |-> k]

Phases == {0, 1, 2, 3}

CellImages ==
    {BlockImage, PinkImage, EmptyCrop} \cup {TileImage(k) : k \in Phases}

\* The configurations validation accepts, as far as the classifier reads
\* them, for a grid of the given shape: the thresholds lie in [0, 1], the
\* texture threshold is >= 0.
ClassifierConfigs(rows, cols) ==
    [rows : {rows}, cols : {cols},
     block_match_threshold : {Half(1), Half(2)},
     empty_pink_ratio_threshold : {Half(1)},
     empty_texture_threshold : {5},
     tile_similarity_threshold : {Half(1), Half(2)}]

\* A 2 x 3 frame of five tiles and an obstacle.  At threshold 1 the tiles
\* fall into a single tile and two pairs, at threshold 1/2 into a pair and
\* a group of three.
MixedFrame ==
    [p \in (0 .. 1) \X (0 .. 2) |->
        CASE p = <<0, 0>> -> TileImage(2)
          [] p \in {<<0, 1>>, <<1, 0>>} -> TileImage(0)
          [] p \in {<<0, 2>>, <<1, 1>>} -> TileImage(3)
          [] OTHER -> BlockImage]

ClassifierInit ==
    /\ \/ \E s \in Shapes :
            /\ config \in ClassifierConfigs(s[1], s[2])
            /\ frame \in [(0 .. (s[1] - 1)) \X (0 .. (s[2] - 1)) -> CellImages]
       \/ /\ config \in ClassifierConfigs(2, 3)
          /\ frame = MixedFrame
    /\ op = "init"
    /\ ret = None
    /\ IdleSolver
    /\ IdleRuntimeState
    /\ IdleCycle
    /\ IdleSearch
    /\ IdleLoops

GroupTiles ==
    /\ op = "init"
    /\ op' = "group_tiles_by_similarity"
    /\ ret' = group_tiles_by_similarity(UnresolvedCells(frame, config), config)
    /\ UNCHANGED <<board, arg_a, arg_b, controller_vars>>
    /\ UNCHANGED <<classifier_vars, cycle_vars, search_vars, loop_vars>>
    /\ UNCHANGED since_rescan

ClassifyBoard ==
    /\ op = "init"
    /\ op' = "classify_board"
    /\ ret' = classify_board(frame, config)
    /\ UNCHANGED <<board, arg_a, arg_b, controller_vars>>
    /\ UNCHANGED <<classifier_vars, cycle_vars, search_vars, loop_vars>>
    /\ UNCHANGED since_rescan

ClassifierNext == GroupTiles \/ ClassifyBoard

ClassifierSpec == ClassifierInit /\ [][ClassifierNext]_vars

(***************************************************************************)
(* Claims about the classifier                                             *)
(***************************************************************************)

InUnitInterval(x) == 0 <= x.num /\ x.num <= x.den

\* C13: classify_board returns a board and a confidence map of shape
\* rows x cols, and every confidence lies in [0, 1].  The code does not
\* keep this: the confidence of a clustered cell is the mean of its
\* similarities to the whole group, and a similarity can be negative.
C13_ShapeAndUnitConfidence ==
    op = "classify_board" =>
        /\ ret.board.rows = config.rows
        /\ ret.board.cols = config.cols
        /\ DOMAIN ret.board.cell = DOMAIN frame
        /\ ret.confidence.rows = config.rows
        /\ ret.confidence.cols = config.cols
        /\ DOMAIN ret.confidence.cell = DOMAIN frame
        /\ \A p \in DOMAIN frame : InUnitInterval(ret.confidence.cell[p])

\* A clustered cell, with a positive id, whose confidence is below 0.
C13_Witness ==
    /\ op = "classify_board"
    /\ \E p \in DOMAIN frame :
        /\ ret.board.cell[p] > 0
        /\ ret.confidence.cell[p].num < 0

\* The cells whose images are similar enough to the image at c.
SimilarTo(cell_imgs, cfg, c) ==
    {d \in DOMAIN cell_imgs :
        Leq(cfg.tile_similarity_threshold,
            _pair_similarity(cell_imgs[c].gray, cell_imgs[d].gray))}

\* The similarity group of c: the cells linked to it by a chain of similar
\* pairs.
RECURSIVE Chained(_, _, _)
Chained(cell_imgs, cfg, S) ==
    LET more == S \cup UNION {SimilarTo(cell_imgs, cfg, c) : c \in S}
    IN  IF more = S THEN S ELSE Chained(cell_imgs, cfg, more)

GroupOf(cell_imgs, cfg, c) == Chained(cell_imgs, cfg, {c})

Paired(G) == Cardinality(G) >= 2 /\ Cardinality(G) % 2 = 0

\* C14: after group_tiles_by_similarity, the members of a similarity group
\* share one positive id exactly when the group's size is even and >= 2;
\* every member of an odd group has id 0 and confidence 0.0.
C14_EvenGroupsGetSharedId ==
    op = "group_tiles_by_similarity" =>
        LET cell_imgs == UnresolvedCells(frame, config)
        IN  /\ DOMAIN ret.ids = DOMAIN cell_imgs
            /\ DOMAIN ret.confidence = DOMAIN cell_imgs
            /\ \A c \in DOMAIN cell_imgs :
                LET G == GroupOf(cell_imgs, config, c)
                IN  IF Paired(G)
                    THEN /\ ret.ids[c] > 0
                         /\ \A d \in G : ret.ids[d] = ret.ids[c]
                    ELSE /\ ret.ids[c] = 0
                         /\ ret.confidence[c] = Frac(0, 1)

\* A group of two next to a group of three: the two share a positive id,
\* the three have id 0.
C14_Witness ==
    /\ op = "group_tiles_by_similarity"
    /\ \E c, d \in DOMAIN ret.ids :
        /\ Cardinality(GroupOf(UnresolvedCells(frame, config), config, c)) = 2
        /\ Cardinality(GroupOf(UnresolvedCells(frame, config), config, d)) = 3
        /\ ret.ids[c] > 0
        /\ ret.ids[d] = 0

\* The smallest cell of a set of cells.
Smallest(G) == CHOOSE x \in G : \A y \in G \ {x} : TupleLess(x, y)

\* C15: the even-sized groups get the ids 1 .. m without gaps, in the order
\* of their smallest cells; an odd group uses up no id; and two cells with
\* one positive id belong to one group.
C15_IdsInGroupOrder ==
    op = "group_tiles_by_similarity" =>
        LET cell_imgs == UnresolvedCells(frame, config)
            group == [c \in DOMAIN cell_imgs |->
                        GroupOf(cell_imgs, config, c)]
            paired == {G \in {group[c] : c \in DOMAIN cell_imgs} : Paired(G)}
        IN  /\ \A G \in paired :
                ret.ids[Smallest(G)] =
                    1 + Cardinality({H \in paired :
                                        TupleLess(Smallest(H), Smallest(G))})
            /\ {ret.ids[c] : c \in DOMAIN cell_imgs} \ {0}
                    = 1 .. Cardinality(paired)
            /\ \A c \in DOMAIN cell_imgs :
                LET G == GroupOf(cell_imgs, config, c)
                IN  \A d \in DOMAIN cell_imgs :
                        (ret.ids[c] > 0 /\ ret.ids[c] = ret.ids[d]) => d \in G

\* A single tile at the first cell, then two pairs: the pairs have the ids
\* 1 and 2 in the order of their smallest cells, the single tile none.
C15_Witness ==
    /\ op = "group_tiles_by_similarity"
    /\ frame = MixedFrame
    /\ ret.ids[<<0, 0>>] = 0
    /\ ret.ids[<<0, 1>>] = 1 /\ ret.ids[<<1, 0>>] = 1
    /\ ret.ids[<<0, 2>>] = 2 /\ ret.ids[<<1, 1>>] = 2
    /\ <<1, 2>> \notin DOMAIN ret.ids

\* The cells of the returned board that hold the value v.
CellsHolding(v) == {q \in CellsOf(ret.board) : ret.board.cell[q] = v}

\* C27: in the Board classify_board returns each cell holds -1, 0 or a
\* positive id, never the sentinel -2 of the first pass, and every positive
\* id is held by an even number of cells, at least two.
C27_BoardValuesAndEvenIds ==
    op = "classify_board" =>
        \A p \in CellsOf(ret.board) :
            LET v == ret.board.cell[p]
            IN  /\ v # UNRESOLVED_TILE
                /\ v >= -1
                /\ v > 0 =>
                    /\ Cardinality(CellsHolding(v)) >= 2
                    /\ Cardinality(CellsHolding(v)) % 2 = 0
                /\ p \in DOMAIN UnresolvedCells(frame, config) => v >= 0

\* The board of the mixed frame at the strict threshold: the single tile
\* was unresolved in the first pass and holds 0, two ids are held by two
\* cells each, and the obstacle holds -1.
C27_Witness ==
    /\ op = "classify_board"
    /\ frame = MixedFrame
    /\ <<0, 0>> \in DOMAIN UnresolvedCells(frame, config)
    /\ ret.board.cell[<<0, 0>>] = 0
    /\ Cardinality(CellsHolding(1)) = 2
    /\ Cardinality(CellsHolding(2)) = 2
    /\ ret.board.cell[<<1, 2>>] = -1

(***************************************************************************)
(* bot/clicker.py and the geometry of bot/grid.py                          *)
(*                                                                         *)
(* A configuration is a function on its keys, so that a key can be absent. *)
(* What click_pair does to the outside is the sequence of its events: the  *)
(* pyautogui calls, the sleeps and the dry-run prints.  A call returns     *)
(* [events, raised], raised telling whether a ValueError left it.  The     *)
(* game on the screen acts while click_pair sleeps, so a call of           *)
(* click_pair is one step up to each time.sleep and one step after it.     *)
(* The pyautogui of tests/test_clicker.py never raises, and so the calls   *)
(* of the clicker's own operations do not fail.                            *)
(***************************************************************************)

\* config.get(key, default)
Get(cfg, key, default) == IF key \in DOMAIN cfg THEN cfg[key] ELSE default

Event(kind, x, y, seconds) ==
    [kind |-> kind, x |-> x, y |-> y, seconds |-> seconds]

\* milliseconds / 1000.0
Seconds(ms) == Frac(ms, 1000)

get_board_roi(cfg) ==
    LET grid_w == cfg.cols * cfg.cell_w + (cfg.cols - 1) * cfg.gap_x
        grid_h == cfg.rows * cfg.cell_h + (cfg.rows - 1) * cfg.gap_y
    IN  <<cfg.board_center_x - (grid_w \div 2),
          cfg.board_center_y - (grid_h \div 2), grid_w, grid_h>>

\* _validate_cell of bot/clicker.py: whether the cell passes.
ValidCell(cell, cfg) ==
    /\ 0 <= cell[1] /\ cell[1] < cfg.rows
    /\ 0 <= cell[2] /\ cell[2] < cfg.cols

\* _require_valid_cell of bot/grid.py: <<>> when the cell passes, else the
\* message of the ValueError it raises, the row being tested before the
\* column.
_require_valid_cell(row, col, rows, cols) ==
    IF ~(0 <= row /\ row < rows)
    THEN <<"row " \o ToString(row) \o " out of range [0, "
            \o ToString(rows - 1) \o "]">>
    ELSE IF ~(0 <= col /\ col < cols)
    THEN <<"col " \o ToString(col) \o " out of range [0, "
            \o ToString(cols - 1) \o "]">>
    ELSE <<>>

\* get_cell_rect through _cell_bounds_absolute: [raised, value] with the
\* rectangle (x, y, w, h), or [raised, error] for a cell outside the grid.
get_cell_rect(row, col, cfg) ==
    LET error == _require_valid_cell(row, col, cfg.rows, cfg.cols)
        roi == get_board_roi(cfg)
    IN  IF error # <<>> THEN [raised |-> TRUE, error |-> error[1]]
        ELSE [raised |-> FALSE,
              value |-> <<roi[1] + col * (cfg.cell_w + cfg.gap_x),
                          roi[2] + row * (cfg.cell_h + cfg.gap_y),
                          cfg.cell_w, cfg.cell_h>>]

\* get_cell_center: the ValueError of get_cell_rect passes through it.
get_cell_center(row, col, cfg) ==
    LET rect == get_cell_rect(row, col, cfg)
    IN  IF rect.raised THEN rect
        ELSE [raised |-> FALSE,
              value |-> <<rect.value[1] + (rect.value[3] \div 2),
                          rect.value[2] + (rect.value[4] \div 2)>>]

\* click_cell(cell, config, dry_run, hold_ms); hold_ms is <<>> for None
\* and <<ms>> otherwise.
click_cell(cell, cfg, dry, hold_ms) ==
    IF ~ValidCell(cell, cfg) THEN [events |-> <<>>, raised |-> TRUE]
    ELSE
        LET xy == get_cell_center(cell[1], cell[2], cfg).value
            pause == Event("PAUSE", 0, 0, Seconds(cfg.click_pause_ms))
            effective_hold_ms ==
                IF hold_ms = <<>> THEN Get(cfg, "tap_hold_ms", 0)
                ELSE hold_ms[1]
            hold_seconds ==
                IF effective_hold_ms > 0 THEN Seconds(effective_hold_ms)
                ELSE Seconds(0)
        IN  [events |->
                IF dry
                THEN <<pause, Event("print", xy[1], xy[2], Seconds(0))>>
                ELSE IF hold_seconds.num > 0
                THEN <<pause,
                       Event("mouseDown", xy[1], xy[2], Seconds(0)),
                       Event("sleep", 0, 0, hold_seconds),
                       Event("mouseUp", xy[1], xy[2], Seconds(0))>>
                ELSE <<pause, Event("click", xy[1], xy[2], Seconds(0))>>,
             raised |-> FALSE]

\* The events of time.sleep(max(0.0, ms / 1000.0)) under `if seconds > 0`.
SleepIfPositive(ms) ==
    IF ms > 0 THEN <<Event("sleep", 0, 0, Seconds(ms))>> ELSE <<>>

\* Mutant of click_pair: a dry run returns after the second cell, without
\* the wait.
click_pairDryRunSkipsWait(pair_arg, cfg, dry) ==
    LET first_tile_hold_ms ==
            Get(cfg, "first_tile_tap_hold_ms", Get(cfg, "tap_hold_ms", 0))
        one == click_cell(pair_arg[1], cfg, dry, <<first_tile_hold_ms>>)
        again ==
            IF Get(cfg, "double_click_first_tile", FALSE)
            THEN [events |->
                    SleepIfPositive(Get(cfg, "first_tile_repeat_wait_ms", 0))
                        \o one.events,
                  raised |-> one.raised]
            ELSE [events |-> <<>>, raised |-> FALSE]
        between == SleepIfPositive(Get(cfg, "inter_click_wait_ms", 0))
        two == click_cell(pair_arg[2], cfg, dry, <<>>)
    IN  IF one.raised THEN one
        ELSE IF two.raised
        THEN [events |-> one.events \o again.events \o between \o two.events,
              raised |-> TRUE]
        ELSE [events |->
                one.events \o again.events \o between \o two.events
                    \o (IF dry THEN <<>>
                        ELSE <<Event("sleep", 0, 0,
                                     Seconds(cfg.post_click_wait_ms))>>),
              raised |-> FALSE]

click_pair(pair_arg, cfg, dry) ==
    LET first_tile_hold_ms ==
            Get(cfg, "first_tile_tap_hold_ms", Get(cfg, "tap_hold_ms", 0))
        one == click_cell(pair_arg[1], cfg, dry, <<first_tile_hold_ms>>)
        again ==
            IF Get(cfg, "double_click_first_tile", FALSE)
            THEN [events |->
                    SleepIfPositive(Get(cfg, "first_tile_repeat_wait_ms", 0))
                        \o one.events,
                  raised |-> one.raised]
            ELSE [events |-> <<>>, raised |-> FALSE]
        between == SleepIfPositive(Get(cfg, "inter_click_wait_ms", 0))
        two == click_cell(pair_arg[2], cfg, dry, <<>>)
    IN  IF one.raised THEN one
        ELSE IF two.raised
        THEN [events |-> one.events \o again.events \o between \o two.events,
              raised |-> TRUE]
        ELSE [events |->
                one.events \o again.events \o between \o two.events
                    \o <<Event("sleep", 0, 0, Seconds(cfg.post_click_wait_ms))>>,
              raised |-> FALSE]

\* click_screen_middle(config, dry_run): the events of one click at the
\* centre of the board.
click_screen_middle(cfg, dry) ==
    <<Event("PAUSE", 0, 0, Seconds(cfg.click_pause_ms)),
      Event(IF dry THEN "print" ELSE "click",
            cfg.board_center_x, cfg.board_center_y, Seconds(0))>>

\* The position in events of the next event of one of the kinds after
\* position done, or the last position when there is none.
NextOf(events, done, kinds) ==
    LET found == {i \in done + 1 .. Len(events) : events[i].kind \in kinds}
    IN  IF found = {} THEN Len(events)
        ELSE CHOOSE i \in found : \A j \in found : i <= j

\* click_pair, whose whole run is out, resumed after its first done events:
\* the events made when it next sleeps or ends, where it then stands, and
\* what it has returned.  With fails, the next pyautogui pointer call
\* raises an Exception instead, which leaves click_pair; pc is "none" when
\* click_pair makes no pointer call before it next sleeps or ends.
ClickPairStep(out, done, fails) ==
    LET upto == NextOf(out.events, done, {"sleep"})
        asleep == upto > done /\ out.events[upto].kind = "sleep"
        call == NextOf(SubSeq(out.events, 1, upto), done,
                       {"click", "mouseDown", "mouseUp"})
        calls == /\ call > done
                 /\ out.events[call].kind \in {"click", "mouseDown", "mouseUp"}
    IN  IF fails
        THEN [trace |-> SubSeq(out.events, 1, call - 1),
              pc |-> IF calls THEN "done" ELSE "none",
              ret |-> <<"raised">>]
        ELSE [trace |-> SubSeq(out.events, 1, upto),
              pc |-> IF asleep THEN "sleep" ELSE "done",
              ret |-> IF asleep THEN None
                      ELSE IF out.raised THEN <<"raised">>
                      ELSE <<"returned">>]

(***************************************************************************)
(* The clicker's inputs and operations                                     *)
(***************************************************************************)

\* A key that may be absent: no entry, or the key with one of the values.
Optional(key, values) == {<<>>} \cup {key :> v : v \in values}

\* The configuration of tests/test_clicker.py, also with a horizontal gap,
\* and with each of the optional keys click_pair reads absent or set.
ClickerConfigs ==
    {[rows |-> 3, cols |-> 3, board_center_x |-> 200, board_center_y |-> 200,
      cell_w |-> 20, cell_h |-> 20, gap_x |-> gap, gap_y |-> 0,
      click_pause_ms |-> 80, post_click_wait_ms |-> 250]
        @@ hold @@ first_hold @@ double @@ repeat_wait @@ inter_wait :
        gap \in {0, 3},
        hold \in Optional("tap_hold_ms", {0, 50}),
        first_hold \in Optional("first_tile_tap_hold_ms", {0, 60}),
        double \in Optional("double_click_first_tile", {FALSE, TRUE}),
        repeat_wait \in Optional("first_tile_repeat_wait_ms", {30}),
        inter_wait \in Optional("inter_click_wait_ms", {0, 40})}

\* The cells click_pair is called with: cells of the 3 x 3 grid, and one
\* beyond its last row.
ClickCells == {<<0, 0>>, <<0, 1>>, <<1, 1>>, <<2, 2>>, <<3, 0>>}

ClickerInit ==
    /\ config \in ClickerConfigs
    /\ arg_pair \in ClickCells \X ClickCells
    /\ dry_run \in BOOLEAN
    /\ trace = <<>>
    /\ op = "init"
    /\ ret = None
    /\ pc = "start"
    /\ attempt = None
    /\ rs = None
    /\ conf = None
    /\ tick = FALSE
    /\ streak = 0
    /\ since_rescan = None
    /\ IdleSolver
    /\ IdleClassifier
    /\ IdleSearch
    /\ IdleLoops

\* click_pair runs from its call to its first time.sleep, or to its end
\* when it does not sleep.
CallClickPair ==
    /\ op = "init"
    /\ op' = "click_pair"
    /\ LET step ==
            ClickPairStep(click_pair(arg_pair, config, dry_run), 0, FALSE)
       IN  /\ trace' = step.trace
           /\ pc' = step.pc
           /\ ret' = IF step.ret = None THEN None ELSE step.ret[1]
    /\ UNCHANGED <<board, arg_a, arg_b, rs, config, conf, tick, streak>>
    /\ UNCHANGED <<arg_pair, attempt, dry_run>>
    /\ UNCHANGED <<classifier_vars, search_vars, loop_vars, since_rescan>>

\* time.sleep returns and click_pair runs on to its next time.sleep, or to
\* its end.
WakeClickPair ==
    /\ op = "click_pair"
    /\ pc = "sleep"
    /\ LET step == ClickPairStep(click_pair(arg_pair, config, dry_run),
                                 Len(trace), FALSE)
       IN  /\ trace' = step.trace
           /\ pc' = step.pc
           /\ ret' = IF step.ret = None THEN None ELSE step.ret[1]
    /\ UNCHANGED <<board, arg_a, arg_b, rs, config, conf, tick, streak>>
    /\ UNCHANGED <<op, arg_pair, attempt, dry_run>>
    /\ UNCHANGED <<classifier_vars, search_vars, loop_vars, since_rescan>>

\* click_screen_middle(config, dry_run), which does not sleep.
CallClickScreenMiddle ==
    /\ op = "init"
    /\ op' = "click_screen_middle"
    /\ trace' = click_screen_middle(config, dry_run)
    /\ pc' = "done"
    /\ ret' = "returned"
    /\ UNCHANGED <<board, arg_a, arg_b, rs, config, conf, tick, streak>>
    /\ UNCHANGED <<arg_pair, attempt, dry_run>>
    /\ UNCHANGED <<classifier_vars, search_vars, loop_vars, since_rescan>>

ClickerNext ==
    \/ CallClickPair
    \/ WakeClickPair
    \/ CallClickScreenMiddle

ClickerSpec == ClickerInit /\ [][ClickerNext]_vars

(***************************************************************************)
(* Claims about the clicker                                                *)
(***************************************************************************)

\* The positions of the event history holding a pointer action.
PointerEvents ==
    {i \in 1 .. Len(trace) : trace[i].kind \in {"click", "mouseDown", "mouseUp"}}

\* The positions of the event history holding a sleep.
Sleeps == {i \in 1 .. Len(trace) : trace[i].kind = "sleep"}

\* None of the hold and double-click options is set.
PlainClicks(cfg) ==
    DOMAIN cfg \cap {"tap_hold_ms", "first_tile_tap_hold_ms",
                     "double_click_first_tile"} = {}

\* The centre of a cell of the grid on the screen.
Centre(cell, cfg) ==
    LET width == cfg.cols * cfg.cell_w + (cfg.cols - 1) * cfg.gap_x
        height == cfg.rows * cfg.cell_h + (cfg.rows - 1) * cfg.gap_y
    IN  <<cfg.board_center_x - (width \div 2)
            + cell[2] * (cfg.cell_w + cfg.gap_x) + (cfg.cell_w \div 2),
          cfg.board_center_y - (height \div 2)
            + cell[1] * (cfg.cell_h + cfg.gap_y) + (cfg.cell_h \div 2)>>

\* C19: click_pair on two cells of the grid, with no hold or double-click
\* option set, makes exactly two pointer clicks, at the centre of the first
\* cell and then at the centre of the second, and then sleeps
\* post_click_wait_ms once, as its last event; in a dry run it makes no
\* pointer action and still ends with that one sleep.
C19_TwoClicksThenWait ==
    (/\ op = "click_pair"
     /\ pc = "done"
     /\ PlainClicks(config)
     /\ ValidCell(arg_pair[1], config)
     /\ ValidCell(arg_pair[2], config)) =>
        /\ ret = "returned"
        /\ trace # <<>>
        /\ trace[Len(trace)] =
                Event("sleep", 0, 0, Frac(config.post_click_wait_ms, 1000))
        /\ IF dry_run
           THEN /\ PointerEvents = {}
                /\ \A i \in Sleeps : i = Len(trace) \/ i < Len(trace) - 2
           ELSE \E i, j \in PointerEvents :
                    /\ PointerEvents = {i, j}
                    /\ i < j
                    /\ LET c1 == Centre(arg_pair[1], config)
                           c2 == Centre(arg_pair[2], config)
                       IN  /\ trace[i] = Event("click", c1[1], c1[2], Frac(0, 1000))
                           /\ trace[j] = Event("click", c2[1], c2[2], Frac(0, 1000))
                    /\ {k \in Sleeps : k > j} = {Len(trace)}

\* The call of test_click_pair_real_mode_clicks_in_order_and_waits: clicks
\* at (180, 180) and (220, 220), then a sleep of 0.25 s.
C19_Witness ==
    /\ op = "click_pair"
    /\ pc = "done"
    /\ ret = "returned"
    /\ ~dry_run
    /\ arg_pair = <<<<0, 0>>, <<2, 2>>>>
    /\ DOMAIN config =
        {"rows", "cols", "board_center_x", "board_center_y", "cell_w",
         "cell_h", "gap_x", "gap_y", "click_pause_ms", "post_click_wait_ms"}
    /\ config.gap_x = 0
    /\ trace = <<Event("PAUSE", 0, 0, Frac(80, 1000)),
                 Event("click", 180, 180, Frac(0, 1000)),
                 Event("PAUSE", 0, 0, Frac(80, 1000)),
                 Event("click", 220, 220, Frac(0, 1000)),
                 Event("sleep", 0, 0, Frac(250, 1000))>>

(***************************************************************************)
(* The search of can_connect, one pass of its `while queue` loop at a time *)
(***************************************************************************)

\* The boards searched: the enumerated boards with a single tile id, which
\* is all the search can tell apart, and the boards of the tests.
SearchBoards ==
    {b \in EnumBoards : \A p \in CellsOf(b) : b.cell[p] <= 1} \cup TestBoards

\* The state at line 49: the checks of lines 33-45 have passed for the
\* cells a and b (in padded coordinates), the queue holds the origin.
SearchStart ==
    /\ board \in SearchBoards
    /\ \E a \in QueryCells(board), b \in QueryCells(board) :
        /\ a # b
        /\ InBounds(pad_board(board), a[1], a[2])
        /\ InBounds(pad_board(board), b[1], b[2])
        /\ pad_board(board).cell[a] > 0
        /\ pad_board(board).cell[a] = pad_board(board).cell[b]
        /\ arg_a = a
        /\ arg_b = b
        /\ search = SearchInit(a)
    /\ expanded = <<>>
    /\ op = "search"
    /\ ret = None
    /\ IdleController
    /\ IdleClassifier
    /\ IdleCycle
    /\ IdleLoops

\* Lines 51-74: one state is popped and its four rays are walked; the
\* function returns when the target was met or the queue has run empty.
SearchIterate ==
    /\ op = "search"
    /\ search' = SearchStep(pad_board(board), arg_b, search)
    /\ expanded' = Append(expanded, Head(search.queue))
    /\ op' = IF search'.found THEN "return_true"
             ELSE IF search'.queue = <<>> THEN "return_false"
             ELSE "search"
    /\ UNCHANGED <<board, arg_a, arg_b, ret, controller_vars>>
    /\ UNCHANGED <<classifier_vars, cycle_vars, loop_vars, since_rescan>>

SearchNext == SearchIterate

SearchSpec == SearchStart /\ [][SearchNext]_vars

(***************************************************************************)
(* Claims about the search                                                 *)
(***************************************************************************)

\* The (row, col, direction) of a queue entry.
StateKey(e) == <<e[1], e[2], e[3]>>

\* Turns stay within 0 .. 2 in the queue and among the popped states; no
\* state is popped twice; a popped state's turns are its best_turns, so it
\* was never improved after it was enqueued; the popped states are no more
\* than the origin and four per cell of the padded board, each pass popping
\* one; and the loop goes on only while the queue holds a state.
SearchInvariant ==
    /\ \A i \in 1 .. Len(search.queue) :
        search.queue[i][4] >= 0 /\ search.queue[i][4] <= 2
    /\ \A i \in 1 .. Len(expanded) :
        /\ expanded[i][4] <= 2
        /\ expanded[i][3] # -1 =>
            /\ StateKey(expanded[i]) \in DOMAIN search.best_turns
            /\ search.best_turns[StateKey(expanded[i])] = expanded[i][4]
        /\ \A j \in 1 .. Len(expanded) :
            i < j => StateKey(expanded[i]) # StateKey(expanded[j])
    /\ \A i \in 1 .. Len(search.queue) :
        /\ \A j \in 1 .. Len(expanded) :
            StateKey(search.queue[i]) # StateKey(expanded[j])
        /\ \A j \in 1 .. Len(search.queue) :
            i < j => StateKey(search.queue[i]) # StateKey(search.queue[j])
    /\ Len(expanded) <= 1 + 4 * (board.rows + 2) * (board.cols + 2)
    /\ op = "search" => search.queue # <<>> /\ ~search.found
    /\ op = "return_true" <=> search.found
    /\ op = "return_false" => search.queue = <<>>

\* In one pass, best_turns keeps its keys and raises none of its values,
\* and every state the pass enqueues was either not recorded before or is
\* recorded with more turns.
SearchPass ==
    /\ \A k \in DOMAIN search.best_turns :
        /\ k \in DOMAIN search'.best_turns
        /\ search'.best_turns[k] <= search.best_turns[k]
    /\ \A i \in Len(search.queue) .. Len(search'.queue) :
        LET e == search'.queue[i]
        IN  /\ e[4] <= 2
            /\ \/ StateKey(e) \notin DOMAIN search.best_turns
               \/ e[4] < search.best_turns[StateKey(e)]
            /\ search'.best_turns[StateKey(e)] = e[4]

\* C20: in a can_connect search no state with more than 2 turns is
\* enqueued; a state is enqueued only when it is new or reached with
\* strictly fewer turns than recorded, and best_turns never increases; so
\* each state is popped at most once, with its minimal turns, and the
\* search ends: the passes, one pop each, are bounded by the number of
\* states.
C20_SearchPrunedAndFinite ==
    /\ []SearchInvariant
    /\ [][/\ SearchPass
          /\ Len(expanded') = Len(expanded) + 1]_vars

\* A search that gave up after popping states of 0, 1 and 2 turns.
C20_Witness ==
    /\ op = "return_false"
    /\ search.queue = <<>>
    /\ \A t \in 0 .. 2 : \E i \in 1 .. Len(expanded) : expanded[i][4] = t
    /\ Len(expanded) >= 8

(***************************************************************************)
(* group_tiles_by_similarity, one loop pass at a time                      *)
(***************************************************************************)

\* Bound of the grouping runs: the unresolved cells are those of one row of
\* at most MaxGroupCells tiles.
MaxGroupCells == 4

\* The position after (i, j) in `for i in range(n): for j in range(i + 1,
\* n)`, 1-based; (n, n + 1) once the loops are over.
NextPair(n, i, j) ==
    IF j < n THEN <<i, j + 1>>
    ELSE IF i + 2 <= n THEN <<i + 1, i + 2>>
    ELSE <<n, n + 1>>

\* groups.setdefault(root, []).append(cell), on the dictionary as the
\* sequence of its (root, cells) items.
FileUnder(groups, root, cell) ==
    LET known == {g \in 1 .. Len(groups) : groups[g][1] = root}
    IN  IF known = {} THEN Append(groups, <<root, <<cell>>>>)
        ELSE [g \in 1 .. Len(groups) |->
                IF g \in known
                THEN <<groups[g][1], Append(groups[g][2], cell)>>
                ELSE groups[g]]

\* The locals of group_tiles_by_similarity before the first pass.
GroupingStart(n) ==
    [phase |-> IF n >= 2 THEN "union" ELSE "collect",
     parent |-> [k \in 1 .. n |-> k],
     i |-> 1, j |-> 2, k |-> 1, groups |-> <<>>]

GroupingInit ==
    /\ \E n \in 1 .. MaxGroupCells :
        /\ frame \in [{0} \X (0 .. (n - 1)) -> {TileImage(k) : k \in Phases}]
        /\ grouping = GroupingStart(n)
    /\ config \in [tile_similarity_threshold : {Half(1), Half(2)}]
    /\ op = "init"
    /\ ret = None
    /\ capture = None
    /\ pointer = <<>>
    /\ IdleSolver
    /\ IdleRuntimeState
    /\ IdleCycle
    /\ IdleSearch

\* Lines 156-161: one pass of the inner loop, for the pair (i, j).
UnionPass ==
    /\ grouping # None
    /\ grouping.phase = "union"
    /\ LET cells == SortedCells(DOMAIN frame)
           n == Len(cells)
           sim == _pair_similarity(_prepare_for_match(frame[cells[grouping.i]]),
                                   _prepare_for_match(frame[cells[grouping.j]]))
           next == NextPair(n, grouping.i, grouping.j)
       IN  /\ grouping' =
                [grouping EXCEPT
                    !.parent =
                        IF Leq(config.tile_similarity_threshold, sim)
                        THEN union(grouping.parent, grouping.i, grouping.j)
                        ELSE grouping.parent,
                    !.i = next[1],
                    !.j = next[2],
                    !.phase = IF next[2] > n THEN "collect" ELSE "union"]
    /\ op' = "union_pass"
    /\ UNCHANGED <<board, arg_a, arg_b, ret, controller_vars>>
    /\ UNCHANGED <<classifier_vars, cycle_vars, search_vars, capture, pointer>>
    /\ UNCHANGED since_rescan

\* Lines 164-166: one pass of the loop over the cells, for the k-th cell.
CollectPass ==
    /\ grouping # None
    /\ grouping.phase = "collect"
    /\ LET cells == SortedCells(DOMAIN frame)
           f == find(grouping.parent, grouping.k)
       IN  /\ grouping' =
                [grouping EXCEPT
                    !.parent = f.parent,
                    !.groups = FileUnder(grouping.groups, f.root,
                                         cells[grouping.k]),
                    !.k = grouping.k + 1,
                    !.phase = IF grouping.k + 1 > Len(cells) THEN "done"
                              ELSE "collect"]
    /\ op' = "collect_pass"
    /\ UNCHANGED <<board, arg_a, arg_b, ret, controller_vars>>
    /\ UNCHANGED <<classifier_vars, cycle_vars, search_vars, capture, pointer>>
    /\ UNCHANGED since_rescan

GroupingNext == UnionPass \/ CollectPass

GroupingSpec == GroupingInit /\ [][GroupingNext]_vars

(***************************************************************************)
(* Claims about the union-find of group_tiles_by_similarity                *)
(***************************************************************************)

\* The indices a and b have one root in the parent list.
SameRoot(parent, a, b) == find(parent, a).root = find(parent, b).root

\* The indices a and b of the sorted cells are linked by a chain of cells
\* whose consecutive images are similar enough.
Linked(a, b) ==
    LET cells == SortedCells(DOMAIN frame)
    IN  cells[b] \in GroupOf(frame, config, cells[a])

\* The groups filed so far, as sets of cells.
FiledGroups ==
    {SeqRange(grouping.groups[g][2]) : g \in 1 .. Len(grouping.groups)}

\* Once the double loop is over, two cells share a root exactly when a
\* chain links them; once every cell is filed, the groups are the chain
\* components, each cell filed once.
GroupingInvariant ==
    LET n == Cardinality(DOMAIN frame)
    IN  /\ grouping.phase \in {"collect", "done"} =>
            \A a \in 1 .. n, b \in 1 .. n :
                SameRoot(grouping.parent, a, b) <=> Linked(a, b)
        /\ grouping.phase = "done" =>
            /\ FiledGroups = {GroupOf(frame, config, c) : c \in DOMAIN frame}
            /\ \A g \in 1 .. Len(grouping.groups) :
                    Len(grouping.groups[g][2])
                        = Cardinality(SeqRange(grouping.groups[g][2]))
            /\ \A g, h \in 1 .. Len(grouping.groups) :
                    g # h => SeqRange(grouping.groups[g][2])
                                \cap SeqRange(grouping.groups[h][2]) = {}
            /\ UNION FiledGroups = DOMAIN frame

\* A pass changes which cells share a root only by merging the classes of
\* a similar pair (i, j); the find of a collect pass, and the finds inside
\* union, merge and split nothing else.
GroupingPass ==
    LET n == Cardinality(DOMAIN frame)
        cells == SortedCells(DOMAIN frame)
        i == grouping.i
        j == grouping.j
        joined ==
            /\ grouping.phase = "union"
            /\ Leq(config.tile_similarity_threshold,
                   _pair_similarity(frame[cells[i]].gray, frame[cells[j]].gray))
    IN  \A a \in 1 .. n, b \in 1 .. n :
            SameRoot(grouping'.parent, a, b) <=>
                \/ SameRoot(grouping.parent, a, b)
                \/ /\ joined
                   /\ \/ /\ SameRoot(grouping.parent, a, i)
                         /\ SameRoot(grouping.parent, b, j)
                      \/ /\ SameRoot(grouping.parent, a, j)
                         /\ SameRoot(grouping.parent, b, i)

\* C22: the union-find of group_tiles_by_similarity computes the connected
\* components of the threshold graph: two unresolved cells end up in one
\* group exactly when a chain of pairs with similarity >=
\* tile_similarity_threshold links them, path compression never changes
\* which cells share a root, and the groups partition the unresolved cells.
C22_GroupsAreComponents == []GroupingInvariant /\ [][GroupingPass]_vars

\* Every cell is filed, a group of three holds two cells that are not
\* similar to each other, and the finds of the collect loop have shortened
\* a path of the parent list the double loop left.
C22_Witness ==
    /\ grouping.phase = "done"
    /\ \E g \in 1 .. Len(grouping.groups) :
        /\ Len(grouping.groups[g][2]) = 3
        /\ \E c, d \in SeqRange(grouping.groups[g][2]) :
                d \notin SimilarTo(frame, config, c)
    /\ LET cells == SortedCells(DOMAIN frame)
       IN  grouping.parent
             # UnionPairs(cells, [c \in DOMAIN frame |-> frame[c].gray],
                          config.tile_similarity_threshold,
                          [k \in 1 .. Len(cells) |-> k], 1, 2)
    /\ [g \in 1 .. Len(grouping.groups) |-> grouping.groups[g]]
         = CollectGroups(SortedCells(DOMAIN frame),
                         UnionPairs(SortedCells(DOMAIN frame),
                                    [c \in DOMAIN frame |-> frame[c].gray],
                                    config.tile_similarity_threshold,
                                    [k \in 1 .. Cardinality(DOMAIN frame) |-> k],
                                    1, 2),
                         1, <<>>)

(***************************************************************************)
(* _capture_stable_board, one loop pass at a time                          *)
(***************************************************************************)

\* Bound of the capture runs: stability_check_frames is at most
\* MaxStableFrames.
MaxStableFrames == 2

\* Python's max on integers.
Max(x, y) == IF x >= y THEN x ELSE y

\* _frame_mean_abs_diff(a, b): the frames are cast to int16 before the
\* subtraction, so a difference of uint8 pixels does not wrap.
_frame_mean_abs_diff(a, b) ==
    Mean([k \in 1 .. Len(a) |->
            Frac(IF a[k] >= b[k] THEN a[k] - b[k] ELSE b[k] - a[k], 1)])

\* max_attempts = max(6, required_stable * 6)
max_attempts(cfg) == Max(6, cfg.stability_check_frames * 6)

\* Mutant of NextStablePairs: a comparison above the threshold leaves the
\* counter as it was.
NextStablePairsNoReset(stable_pairs, diff, diff_threshold) ==
    IF Leq(diff, diff_threshold) THEN stable_pairs + 1 ELSE stable_pairs

\* stable_pairs after a comparison: `stable_pairs += 1` or `stable_pairs =
\* 0`.
NextStablePairs(stable_pairs, diff, diff_threshold) ==
    IF Leq(diff, diff_threshold) THEN stable_pairs + 1 ELSE 0

\* The frames capture_board can return: two uint8 pixels, each dark or
\* bright.
CapturedFrames == [1 .. 2 -> {0, 255}]

\* The configurations validation accepts, as far as _capture_stable_board
\* reads them: stability_check_frames > 0, the threshold >= 0.
CaptureConfigs ==
    [stability_check_frames : 1 .. MaxStableFrames,
     stability_pixel_diff_threshold : {Frac(0, 1), Frac(128, 1)}]

\* Lines 172-175: the locals after `prev = capture_board(config)` and
\* `stable_pairs = 0`.
CaptureStart(first) ==
    [phase |-> "loop", prev |-> first, curr |-> None, stable_pairs |-> 0,
     attempt_idx |-> 0, captures |-> 1, outcome |-> "none"]

\* The state at the first time.sleep(0.03).  The history trace holds the
\* differences of the latest comparisons, at most stability_check_frames of
\* them, oldest first.
CaptureInit ==
    /\ config \in CaptureConfigs
    /\ \E first \in CapturedFrames : capture = CaptureStart(first)
    /\ trace = <<>>
    /\ op = "init"
    /\ ret = None
    /\ grouping = None
    /\ pointer = <<>>
    /\ pc = None
    /\ attempt = None
    /\ dry_run = FALSE
    /\ IdleSolver
    /\ IdleRuntimeState
    /\ IdleClassifier
    /\ IdleSearch

\* The latest `most` elements of xs with x appended.
Latest(xs, x, most) ==
    LET all == Append(xs, x)
    IN  IF Len(all) <= most THEN all
        ELSE SubSeq(all, Len(all) - most + 1, Len(all))

\* Lines 176-202: one pass of the loop from the return of its
\* time.sleep(0.03), curr being the frame it captures; the pass that
\* reaches the required streak returns curr, and the pass that ends the
\* loop returns prev.
StablePass(cap, curr, cfg) ==
    LET diff == _frame_mean_abs_diff(cap.prev, curr)
        stable_pairs ==
            NextStablePairs(cap.stable_pairs, diff,
                            cfg.stability_pixel_diff_threshold)
        stable ==
            /\ Leq(diff, cfg.stability_pixel_diff_threshold)
            /\ stable_pairs >= cfg.stability_check_frames
        last == cap.attempt_idx + 1 >= max_attempts(cfg)
    IN  [phase |-> IF stable \/ last THEN "returned" ELSE "loop",
         prev |-> IF stable THEN cap.prev ELSE curr,
         curr |-> curr,
         stable_pairs |-> stable_pairs,
         attempt_idx |-> IF stable THEN cap.attempt_idx
                         ELSE cap.attempt_idx + 1,
         captures |-> cap.captures + 1,
         outcome |-> IF stable THEN "stable"
                     ELSE IF last THEN "fallback" ELSE "none"]

CapturePass ==
    /\ capture # None
    /\ capture.phase = "loop"
    /\ capture.attempt_idx < max_attempts(config)
    /\ \E curr \in CapturedFrames :
        /\ capture' = StablePass(capture, curr, config)
        /\ ret' = IF capture'.phase = "returned" THEN curr ELSE None
        /\ trace' = Latest(trace, _frame_mean_abs_diff(capture.prev, curr),
                           config.stability_check_frames)
    /\ op' = "capture_pass"
    /\ UNCHANGED <<board, arg_a, arg_b, controller_vars, classifier_vars>>
    /\ UNCHANGED <<pc, attempt, dry_run, search_vars, grouping, since_rescan>>
    /\ UNCHANGED pointer

CaptureNext == CapturePass

CaptureSpec == CaptureInit /\ [][CaptureNext]_vars

(***************************************************************************)
(* Claims about _capture_stable_board                                      *)
(***************************************************************************)

\* The latest stability_check_frames comparisons were all at or below the
\* threshold.
StableWindow ==
    /\ Len(trace) = config.stability_check_frames
    /\ \A k \in 1 .. Len(trace) :
        Leq(trace[k], config.stability_pixel_diff_threshold)

CaptureInvariant ==
    /\ capture.captures <= 1 + Max(6, 6 * config.stability_check_frames)
    /\ capture.phase = "loop" =>
        /\ capture.attempt_idx < max_attempts(config)
        /\ capture.captures = 1 + capture.attempt_idx
        /\ capture.outcome = "none"
        /\ ret = None
    /\ capture.phase = "returned" =>
        /\ capture.outcome \in {"stable", "fallback"}
        /\ ret = capture.curr
    /\ capture.outcome = "stable" <=> StableWindow
    /\ capture.outcome = "fallback" =>
        capture.captures = 1 + Max(6, 6 * config.stability_check_frames)

\* A pass captures one frame, and a comparison above the threshold resets
\* the streak counter.
CapturePassEffect ==
    /\ capture.phase = "loop"
    /\ capture'.captures = capture.captures + 1
    /\ capture'.phase = "loop" => capture'.attempt_idx = capture.attempt_idx + 1
    /\ ~Leq(trace'[Len(trace')], config.stability_pixel_diff_threshold)
            => capture'.stable_pairs = 0

\* C23: _capture_stable_board ends after at most 1 + max(6, 6 *
\* stability_check_frames) captures whatever frames are captured; it
\* returns the latest frame early exactly when the latest
\* stability_check_frames comparisons of successive frames were all <=
\* stability_pixel_diff_threshold, the streak counter going back to 0 on a
\* comparison above it; otherwise it returns the last captured frame.
C23_CaptureEndsStableOrFallback ==
    []CaptureInvariant /\ [][CapturePassEffect]_vars

\* An early return that followed a reset of the streak: two stable
\* comparisons were required and more than three frames were captured.
C23_Witness ==
    /\ capture # None
    /\ capture.outcome = "stable"
    /\ config.stability_check_frames = 2
    /\ capture.captures > 3
    /\ capture.captures < 1 + max_attempts(config)

(***************************************************************************)
(* main.py: the click-once cycle                                           *)
(*                                                                         *)
(* _click_once runs from top to bottom once; pc names the call it makes    *)
(* next, or the time.sleep it is in.  The game acts while the program      *)
(* sleeps, so _capture_stable_board and click_pair run one step up to each *)
(* time.sleep and one step after it.  What the screen shows is not the     *)
(* program's, so each capture draws a frame and each pass of the recovery  *)
(* loop draws the board and the confidence map classify_board returns.  A  *)
(* pyautogui pointer call of click_pair may raise an Exception, which the  *)
(* handler of line 291 catches; a KeyboardInterrupt delivered while        *)
(* click_pair sleeps is no Exception and leaves the cycle past the         *)
(* handler.  The zero board of lines 238-239 is overwritten by the first   *)
(* pass and is left out.                                                   *)
(***************************************************************************)

max_recovery_attempts == 2

\* An entry of the call history: the function called, the pass of the
\* recovery loop it was called in (-1 outside the loop), and how it ended.
Call(name, pass, result) == [call |-> name, attempt |-> pass, result |-> result]

\* The message of lines 276-280 and 295-299, shown when the streak has
\* reached max_consecutive_failures.
StopTrigger(state, cfg) ==
    IF state.consecutive_failures >= cfg.max_consecutive_failures
    THEN <<Call("emit_stop_trigger", -1, "")>>
    ELSE <<>>

\* The frames capture_board returns in the cycle: a dark screen and a
\* bright one.
CycleFrames == {shot \in CapturedFrames : shot[1] = shot[2]}

\* The boards classify_board returns in the cycle: the boards of the
\* tests, and each of them with every cell cleared.
CycleBoards ==
    TestBoards
        \cup {MkBoard(b.rows, b.cols, [p \in CellsOf(b) |-> 0]) : b \in TestBoards}

\* The configurations validation accepts, as far as the cycle reads them:
\* the keys of the controller, the shape of a board, the waits of
\* _capture_stable_board with and without a settling wait, and the screen
\* geometry and the waits of click_pair.  No move is recorded before the
\* cycle's one should_full_rescan decision, so of full_rescan_every_n_moves
\* the smallest and the largest value stand for all.
CycleConfigs ==
    {controller @@ [rows |-> b.rows, cols |-> b.cols, settle_wait_ms |-> settle]
        @@ [stability_check_frames |-> 1,
            stability_pixel_diff_threshold |-> Frac(2, 1),
            board_center_x |-> 200, board_center_y |-> 200,
            cell_w |-> 20, cell_h |-> 20, gap_x |-> 0, gap_y |-> 0,
            click_pause_ms |-> 80, inter_click_wait_ms |-> 40,
            post_click_wait_ms |-> 150] :
        controller \in [full_rescan_every_n_moves : {1, MaxEveryN},
                        match_threshold : Levels,
                        max_consecutive_failures : 1 .. MaxFailures],
        b \in TestBoards,
        settle \in {0, 120}}

ClickOnceInit ==
    /\ config \in CycleConfigs
    /\ dry_run \in BOOLEAN
    /\ pc = "start"
    /\ attempt = None
    /\ trace = <<>>
    /\ op = "init"
    /\ ret = None
    /\ IdleSolver
    /\ IdleRuntimeState
    /\ IdleClassifier
    /\ IdleSearch
    /\ IdleLoops

\* Lines 232-241: the RuntimeState is created, the loop entered.
StartCycle ==
    /\ pc = "start"
    /\ rs' = init_runtime_state(config)
    /\ op' = "init_runtime_state"
    /\ attempt' = 0
    /\ trace' = Append(trace, Call("init_runtime_state", -1, ""))
    /\ pc' = "classify"
    /\ UNCHANGED <<board, arg_a, arg_b, ret, config, conf, tick, streak>>
    /\ UNCHANGED <<arg_pair, dry_run, classifier_vars, search_vars, loop_vars>>
    /\ UNCHANGED since_rescan

\* Lines 242 and 157-175: _capture_stable_board is called and runs to its
\* first time.sleep: that of settle_wait_ms, or without a settling wait
\* that of the first pass of its loop, the first frame being captured.
CallCaptureStableBoard ==
    /\ pc = "classify"
    /\ IF config.settle_wait_ms > 0
       THEN pc' = "settle" /\ capture' = None
       ELSE /\ pc' = "capture"
            /\ \E first \in CycleFrames : capture' = CaptureStart(first)
    /\ op' = "_capture_stable_board"
    /\ UNCHANGED <<board, arg_a, arg_b, ret, controller_vars>>
    /\ UNCHANGED <<attempt, trace, dry_run, classifier_vars, search_vars>>
    /\ UNCHANGED <<grouping, pointer, since_rescan>>

\* Lines 170-200: a time.sleep of _capture_stable_board returns and it
\* runs to its next time.sleep: the first frame is captured, or a pass of
\* the loop ends without a return.
WakeCaptureStableBoard ==
    /\ pc \in {"settle", "capture"}
    /\ \E shot \in CycleFrames :
        IF pc = "settle" THEN capture' = CaptureStart(shot)
        ELSE /\ capture' = StablePass(capture, shot, config)
             /\ capture'.phase = "loop"
    /\ pc' = "capture"
    /\ op' = "_capture_stable_board"
    /\ UNCHANGED <<board, arg_a, arg_b, ret, controller_vars>>
    /\ UNCHANGED <<attempt, trace, dry_run, classifier_vars, search_vars>>
    /\ UNCHANGED <<grouping, pointer, since_rescan>>

\* Lines 242-261: the pass that ends _capture_stable_board, and the
\* classification of the frame it returns; the board has the shape of the
\* configuration.
CaptureAndClassify ==
    /\ pc = "capture"
    /\ {shot \in CycleFrames :
            StablePass(capture, shot, config).phase = "returned"} # {}
    /\ \E b \in CycleBoards, confidence \in ConfidenceMaps :
        /\ b.rows = config.rows
        /\ b.cols = config.cols
        /\ board' = b
        /\ conf' = confidence
    /\ capture' = None
    /\ op' = "classify_board"
    /\ trace' = Append(trace, Call("classify_board", attempt, ""))
    /\ pc' = "check"
    /\ UNCHANGED <<arg_a, arg_b, ret, rs, config, tick, streak, arg_pair>>
    /\ UNCHANGED <<attempt, dry_run, classifier_vars, search_vars>>
    /\ UNCHANGED <<grouping, pointer, since_rescan>>

\* Mutant of CheckRescan: a rescan triggered in the last pass ends the
\* cycle.
CheckRescanGivesUp ==
    /\ pc = "check"
    /\ LET out == should_full_rescan(rs, conf, config)
       IN  /\ rs' = out.state
           /\ ret' = out.ret
           /\ trace' = Append(trace,
                    Call("should_full_rescan", attempt,
                         IF out.ret THEN "true" ELSE "false"))
           /\ IF out.ret /\ attempt < max_recovery_attempts - 1
              THEN pc' = "classify" /\ attempt' = attempt + 1
              ELSE IF out.ret THEN pc' = "returned" /\ attempt' = attempt
              ELSE pc' = "solve" /\ attempt' = attempt
    /\ op' = "should_full_rescan"
    /\ tick' = ~tick
    /\ UNCHANGED <<board, arg_a, arg_b, config, conf, streak, arg_pair>>
    /\ UNCHANGED <<dry_run, classifier_vars, search_vars, loop_vars>>
    /\ UNCHANGED since_rescan

\* Lines 263-269: the controller is asked; a triggered rescan starts the
\* next pass unless this was the last one.
CheckRescan ==
    /\ pc = "check"
    /\ LET out == should_full_rescan(rs, conf, config)
       IN  /\ rs' = out.state
           /\ ret' = out.ret
           /\ trace' = Append(trace,
                    Call("should_full_rescan", attempt,
                         IF out.ret THEN "true" ELSE "false"))
           /\ IF out.ret /\ attempt < max_recovery_attempts - 1
              THEN pc' = "classify" /\ attempt' = attempt + 1
              ELSE pc' = "solve" /\ attempt' = attempt
    /\ op' = "should_full_rescan"
    /\ tick' = ~tick
    /\ UNCHANGED <<board, arg_a, arg_b, config, conf, streak, arg_pair>>
    /\ UNCHANGED <<dry_run, classifier_vars, search_vars, loop_vars>>
    /\ UNCHANGED since_rescan

\* Lines 271-272.
SolveBoard ==
    /\ pc = "solve"
    /\ arg_pair' = find_pair(board)
    /\ op' = "find_pair"
    /\ trace' = Append(trace,
            Call("find_pair", -1,
                 IF find_pair(board) = None THEN "none" ELSE "pair"))
    /\ pc' = IF find_pair(board) = None THEN "no_pair" ELSE "click"
    /\ UNCHANGED <<board, arg_a, arg_b, ret, rs, config, conf, tick, streak>>
    /\ UNCHANGED <<attempt, dry_run, classifier_vars, search_vars, loop_vars>>
    /\ UNCHANGED since_rescan

\* Lines 272-281: no pair was found; the failure is recorded and the
\* cycle returns.
RecordNoPair ==
    /\ pc = "no_pair"
    /\ rs' = record_failure(rs)
    /\ streak' = streak + 1
    /\ op' = "record_failure"
    /\ trace' = Append(trace, Call("record_failure", -1, ""))
                    \o StopTrigger(record_failure(rs), config)
    /\ pc' = "returned"
    /\ UNCHANGED <<board, arg_a, arg_b, ret, config, conf, tick, arg_pair>>
    /\ UNCHANGED <<attempt, dry_run, classifier_vars, search_vars, loop_vars>>
    /\ UNCHANGED since_rescan

\* Lines 289-291: click_pair is called and runs to its first time.sleep, or
\* to its end; or its first pointer call raises an Exception.
ClickPair ==
    /\ pc = "click"
    /\ \E fails \in BOOLEAN :
        \E step \in {ClickPairStep(click_pair(arg_pair, config, dry_run), 0,
                                   fails)} :
            /\ step.pc # "none"
            /\ pointer' = step.trace
            /\ trace' = IF step.pc = "sleep" THEN trace
                        ELSE Append(trace, Call("click_pair", -1, step.ret[1]))
            /\ pc' = IF step.pc = "sleep" THEN "click_sleep"
                     ELSE IF step.ret[1] = "returned" THEN "apply"
                     ELSE "except"
    /\ op' = "click_pair"
    /\ UNCHANGED <<board, arg_a, arg_b, ret, controller_vars>>
    /\ UNCHANGED <<attempt, dry_run, classifier_vars, search_vars>>
    /\ UNCHANGED <<grouping, capture, since_rescan>>

\* Lines 289-291: a time.sleep of click_pair returns and click_pair runs to
\* its next time.sleep, or to its end; or its next pointer call raises an
\* Exception.
ResumeClickPair ==
    /\ pc = "click_sleep"
    /\ \E fails \in BOOLEAN :
        \E step \in {ClickPairStep(click_pair(arg_pair, config, dry_run),
                                   Len(pointer), fails)} :
            /\ step.pc # "none"
            /\ pointer' = step.trace
            /\ trace' = IF step.pc = "sleep" THEN trace
                        ELSE Append(trace, Call("click_pair", -1, step.ret[1]))
            /\ pc' = IF step.pc = "sleep" THEN "click_sleep"
                     ELSE IF step.ret[1] = "returned" THEN "apply"
                     ELSE "except"
    /\ op' = "click_pair"
    /\ UNCHANGED <<board, arg_a, arg_b, ret, controller_vars>>
    /\ UNCHANGED <<attempt, dry_run, classifier_vars, search_vars>>
    /\ UNCHANGED <<grouping, capture, since_rescan>>

\* Lines 289-291: a KeyboardInterrupt is raised in a time.sleep of
\* click_pair; `except Exception` does not catch it, and it leaves the
\* cycle with neither record_failure nor apply_successful_move called.
InterruptClickPair ==
    /\ pc = "click_sleep"
    /\ trace' = Append(trace, Call("click_pair", -1, "interrupted"))
    /\ pc' = "interrupted"
    /\ op' = "click_pair"
    /\ UNCHANGED <<board, arg_a, arg_b, ret, controller_vars>>
    /\ UNCHANGED <<attempt, dry_run, classifier_vars, search_vars, loop_vars>>
    /\ UNCHANGED since_rescan

\* Mutant of ExceptClickPair: the exception is swallowed after the failure
\* has been recorded.
ExceptClickPairSwallows ==
    /\ pc = "except"
    /\ rs' = record_failure(rs)
    /\ streak' = streak + 1
    /\ op' = "record_failure"
    /\ trace' = Append(trace, Call("record_failure", -1, ""))
                    \o StopTrigger(record_failure(rs), config)
    /\ pc' = "returned"
    /\ UNCHANGED <<board, arg_a, arg_b, ret, config, conf, tick, arg_pair>>
    /\ UNCHANGED <<attempt, dry_run, classifier_vars, search_vars, loop_vars>>
    /\ UNCHANGED since_rescan

\* Lines 291-300: click_pair raised; the failure is recorded and the
\* exception raised again.
ExceptClickPair ==
    /\ pc = "except"
    /\ rs' = record_failure(rs)
    /\ streak' = streak + 1
    /\ op' = "record_failure"
    /\ trace' = Append(trace, Call("record_failure", -1, ""))
                    \o StopTrigger(record_failure(rs), config)
    /\ pc' = "raised"
    /\ UNCHANGED <<board, arg_a, arg_b, ret, config, conf, tick, arg_pair>>
    /\ UNCHANGED <<attempt, dry_run, classifier_vars, search_vars, loop_vars>>
    /\ UNCHANGED since_rescan

\* Mutant of ApplyMove: the move is recorded twice.
ApplyMoveTwice ==
    /\ pc = "apply"
    /\ rs' = apply_successful_move(apply_successful_move(rs, arg_pair), arg_pair)
    /\ streak' = 0
    /\ op' = "apply_successful_move"
    /\ trace' = trace \o <<Call("apply_successful_move", -1, ""),
                           Call("apply_successful_move", -1, "")>>
    /\ pc' = "returned"
    /\ UNCHANGED <<board, arg_a, arg_b, ret, config, conf, tick, arg_pair>>
    /\ UNCHANGED <<attempt, dry_run, classifier_vars, search_vars, loop_vars>>
    /\ UNCHANGED since_rescan

\* Lines 302-307: click_pair returned; the move is recorded and the cycle
\* returns.
ApplyMove ==
    /\ pc = "apply"
    /\ rs' = apply_successful_move(rs, arg_pair)
    /\ streak' = 0
    /\ op' = "apply_successful_move"
    /\ trace' = Append(trace, Call("apply_successful_move", -1, ""))
    /\ pc' = "returned"
    /\ UNCHANGED <<board, arg_a, arg_b, ret, config, conf, tick, arg_pair>>
    /\ UNCHANGED <<attempt, dry_run, classifier_vars, search_vars, loop_vars>>
    /\ UNCHANGED since_rescan

ClickOnceNext ==
    \/ StartCycle
    \/ CallCaptureStableBoard
    \/ WakeCaptureStableBoard
    \/ CaptureAndClassify
    \/ CheckRescan
    \/ SolveBoard
    \/ RecordNoPair
    \/ ClickPair
    \/ ResumeClickPair
    \/ InterruptClickPair
    \/ ExceptClickPair
    \/ ApplyMove

ClickOnceSpec == ClickOnceInit /\ [][ClickOnceNext]_vars

(***************************************************************************)
(* Claims about the click-once cycle                                       *)
(***************************************************************************)

\* The positions of the history at which `name` was called.
CallsOf(name) == {i \in 1 .. Len(trace) : trace[i].call = name}

\* The cycle has run to its end: it returned, or the exception of
\* click_pair left it through the handler.  A cycle that a
\* KeyboardInterrupt cut short (pc = "interrupted") has not.
CycleEnded == pc \in {"returned", "raised"}

\* C16: when click_pair has raised, an Exception of a pointer call having
\* left it, the cycle ends with record_failure called exactly once,
\* apply_successful_move not called, and the exception leaving the cycle.
C16_ClickFailureRecordedAndRaised ==
    (/\ CycleEnded
     /\ \E i \in CallsOf("click_pair") : trace[i].result = "raised") =>
        /\ Cardinality(CallsOf("record_failure")) = 1
        /\ CallsOf("apply_successful_move") = {}
        /\ pc = "raised"
        /\ rs.consecutive_failures = 1
        /\ rs.last_event = "failure"
        /\ rs.move_count = 0

\* The cycle left by the exception of click_pair, after a second pass of
\* the recovery loop: the first cell was clicked, and the click on the
\* second raised.
C16_Witness ==
    /\ pc = "raised"
    /\ attempt = 1
    /\ Cardinality({i \in 1 .. Len(pointer) : pointer[i].kind = "click"}) = 1
    /\ trace[Len(trace)].call \in {"record_failure", "emit_stop_trigger"}
    /\ \E i \in CallsOf("click_pair") : trace[i].result = "raised"
    /\ rs.rescan_requested

\* C17: a dead board or a triggered rescan is retried until the failure
\* streak has reached max_consecutive_failures: when the cycle stops
\* retrying, consecutive_failures >= max_consecutive_failures.  The code
\* does not do this: the cycle runs once, with at most two passes.
C17_RetriesUntilMaxFailures ==
    /\ (pc = "returned" /\ rs.last_event = "failure") =>
            rs.consecutive_failures >= config.max_consecutive_failures
    /\ (pc = "solve" /\ ret = TRUE) =>
            rs.consecutive_failures >= config.max_consecutive_failures

\* The cycle has returned after a dead board, one failure short of a
\* larger max_consecutive_failures, without the stop message.
C17_Witness ==
    /\ pc = "returned"
    /\ board = DeadBoard
    /\ rs.consecutive_failures = 1
    /\ config.max_consecutive_failures > 1
    /\ CallsOf("emit_stop_trigger") = {}
    /\ Cardinality(CallsOf("find_pair")) = 1

\* C18: the cycle calls classify_board, should_full_rescan, find_pair,
\* click_pair and the recording function in this order: a
\* should_full_rescan call directly follows the classify_board call of its
\* pass; find_pair is called once, after every classification; click_pair
\* is called at most once, after find_pair returned a pair; one of
\* record_failure and apply_successful_move is called, once, after
\* find_pair; apply_successful_move only after click_pair returned.
C18_PipelineOrder ==
    LET classify == CallsOf("classify_board")
        check == CallsOf("should_full_rescan")
        solve == CallsOf("find_pair")
        act == CallsOf("click_pair")
        failure == CallsOf("record_failure")
        success == CallsOf("apply_successful_move")
    IN  /\ \A i \in check :
            /\ i - 1 \in classify
            /\ trace[i - 1].attempt = trace[i].attempt
        /\ Cardinality(solve) <= 1
        /\ CycleEnded => Cardinality(solve) = 1
        /\ \A i \in solve : \A j \in classify \cup check : j < i
        /\ solve # {} => classify # {}
        /\ Cardinality(act) <= 1
        /\ \A i \in act : \E j \in solve : j < i /\ trace[j].result = "pair"
        /\ Cardinality(failure \cup success) <= 1
        /\ CycleEnded => Cardinality(failure \cup success) = 1
        /\ \A i \in failure \cup success : \E j \in solve : j < i
        /\ \A i \in success :
            \E j \in act : j < i /\ trace[j].result = "returned"

\* A cycle that ended with a recorded move after two passes of the
\* recovery loop, click_pair having clicked both cells and slept out its
\* last wait.
C18_Witness ==
    /\ pc = "returned"
    /\ ~dry_run
    /\ Cardinality({i \in 1 .. Len(pointer) : pointer[i].kind = "click"}) = 2
    /\ pointer[Len(pointer)].kind = "sleep"
    /\ Cardinality(CallsOf("classify_board")) = 2
    /\ Cardinality(CallsOf("should_full_rescan")) = 2
    /\ CallsOf("apply_successful_move") # {}
    /\ rs.move_count = 1
    /\ rs.last_pair = arg_pair

\* The history holds a should_full_rescan call of the given pass with the
\* given result.
Checked(pass, result) ==
    \E i \in CallsOf("should_full_rescan") :
        trace[i].attempt = pass /\ trace[i].result = result

RecoveryInvariant ==
    /\ Cardinality(CallsOf("classify_board")) <= max_recovery_attempts
    /\ Cardinality(CallsOf("classify_board")) = 2 => Checked(0, "true")
    /\ Checked(0, "true") =>
        \/ Cardinality(CallsOf("classify_board")) = 2
        \/ pc \in {"classify", "settle", "capture"} /\ attempt = 1
    /\ Checked(max_recovery_attempts - 1, "true") =>
        /\ pc \in {"solve", "no_pair", "click", "click_sleep", "except",
                   "apply", "returned", "raised", "interrupted"}
        /\ pc # "solve" => CallsOf("find_pair") # {}
    /\ CycleEnded => CallsOf("find_pair") # {}

\* The board changes only when classify_board returns, find_pair runs on
\* the board as it stands, and a rescan triggered in the last pass leads to
\* find_pair.
RecoveryStep ==
    /\ board' # board => op' = "classify_board"
    /\ pc = "solve" =>
        /\ op' = "find_pair"
        /\ arg_pair' = find_pair(board)
        /\ board' = board
    /\ (pc = "check" /\ attempt = max_recovery_attempts - 1) => pc' = "solve"

\* C24: in one click-once cycle classify_board is called at most
\* max_recovery_attempts = 2 times; it is called a second time exactly when
\* should_full_rescan returned true in the first pass; and when
\* should_full_rescan returns true in the last pass the cycle goes on to
\* find_pair on the board of the last classification.
C24_RecoveryLoopBounded == []RecoveryInvariant /\ [][RecoveryStep]_vars

\* should_full_rescan returned true in both passes, and find_pair then
\* found a pair on the second board.
C24_Witness ==
    /\ Checked(0, "true")
    /\ Checked(1, "true")
    /\ Cardinality(CallsOf("classify_board")) = 2
    /\ op = "find_pair"
    /\ arg_pair # None
    /\ arg_pair = find_pair(board)

(***************************************************************************)
(* main.py: _validate_config, and the keys the core reads by name          *)
(*                                                                         *)
(* A JSON value is a record [t, v]: its Python type and its value, a float *)
(* being a fraction and a str the sequence of its code points, so that a   *)
(* string holds any character of Unicode.  A configuration is a function   *)
(* on its keys.                                                            *)
(***************************************************************************)

JInt(v) == [t |-> "int", v |-> v]

JFloat(x) == [t |-> "float", v |-> x]

JBool(b) == [t |-> "bool", v |-> b]

JStr(x) == [t |-> "str", v |-> x]

\* float(value) of a number
ToFloat(val) == IF val.t = "int" THEN Frac(val.v, 1) ELSE val.v

\* The dictionary required_types.
required_types ==
    [k \in {"rows", "cols", "board_center_x", "board_center_y", "cell_w",
            "cell_h", "gap_x", "gap_y", "click_pause_ms",
            "post_click_wait_ms", "settle_wait_ms", "stability_check_frames",
            "full_rescan_every_n_moves", "max_consecutive_failures"} |->
        "int"]
    @@ [k \in {"block_match_threshold", "background_match_threshold",
               "empty_texture_threshold", "tile_similarity_threshold",
               "stability_pixel_diff_threshold"} |-> "float"]
    @@ ("debug_enabled" :> "bool") @@ ("debug_dir" :> "str")

\* The isinstance tests of lines 57-65: a float key takes an int or a
\* float, and a bool is no number.
HasType(val, expected_type) ==
    IF expected_type = "float" THEN val.t \in {"int", "float"}
    ELSE val.t = expected_type

\* The characters str.strip() removes, all those for which str.isspace()
\* holds, as code points: tab, line feed, vertical tab, form feed, carriage
\* return (9 to 13), the separators U+001C to U+001F (28 to 31), blank
\* (32), next line U+0085 (133), no-break space U+00A0 (160), the Ogham
\* space mark U+1680 (5760), the spaces U+2000 to U+200A (8192 to 8202),
\* the line and paragraph separators U+2028 and U+2029 (8232, 8233), the
\* narrow no-break space U+202F (8239), the medium mathematical space
\* U+205F (8287) and the ideographic space U+3000 (12288).
Whitespace ==
    (9 .. 13) \cup (28 .. 32) \cup {133, 160, 5760} \cup (8192 .. 8202)
        \cup {8232, 8233, 8239, 8287, 12288}

\* str.strip(): every leading and trailing whitespace character removed.
RECURSIVE Strip(_)
Strip(x) ==
    IF x = <<>> THEN x
    ELSE IF Head(x) \in Whitespace THEN Strip(Tail(x))
    ELSE IF x[Len(x)] \in Whitespace THEN Strip(SubSeq(x, 1, Len(x) - 1))
    ELSE x

\* The configuration with each value without its type.
Plain(cfg) == [k \in DOMAIN cfg |-> cfg[k].v]

InUnit(x) == Leq(Frac(0, 1), x) /\ Leq(x, Frac(1, 1))

\* _validate_config: "ok" when it returns, the ConfigError's message
\* otherwise.
_validate_config(cfg) ==
    IF \E k \in DOMAIN required_types : k \notin DOMAIN cfg
    THEN "Missing required config keys"
    ELSE IF \E k \in DOMAIN required_types :
                ~HasType(cfg[k], required_types[k])
    THEN "wrong type"
    ELSE IF cfg["rows"].v <= 0 \/ cfg["cols"].v <= 0
    THEN "'rows' and 'cols' must be > 0"
    ELSE IF cfg["cell_w"].v <= 0 \/ cfg["cell_h"].v <= 0
    THEN "'cell_w' and 'cell_h' must be > 0"
    ELSE IF cfg["gap_x"].v < 0 \/ cfg["gap_y"].v < 0
    THEN "'gap_x' and 'gap_y' must be >= 0"
    ELSE IF ~InUnit(ToFloat(cfg["block_match_threshold"]))
    THEN "'block_match_threshold' must be between 0.0 and 1.0"
    ELSE IF ~InUnit(ToFloat(cfg["background_match_threshold"]))
    THEN "'background_match_threshold' must be between 0.0 and 1.0"
    ELSE IF ~Leq(Frac(0, 1), ToFloat(cfg["empty_texture_threshold"]))
    THEN "'empty_texture_threshold' must be >= 0.0"
    ELSE IF ~InUnit(ToFloat(cfg["tile_similarity_threshold"]))
    THEN "'tile_similarity_threshold' must be between 0.0 and 1.0"
    ELSE IF ~Leq(Frac(0, 1), ToFloat(cfg["stability_pixel_diff_threshold"]))
    THEN "'stability_pixel_diff_threshold' must be >= 0.0"
    ELSE IF \/ cfg["click_pause_ms"].v < 0
            \/ cfg["post_click_wait_ms"].v < 0
            \/ cfg["settle_wait_ms"].v < 0
    THEN "wait values must be >= 0"
    ELSE IF cfg["stability_check_frames"].v <= 0
    THEN "'stability_check_frames' must be > 0"
    ELSE IF cfg["full_rescan_every_n_moves"].v <= 0
    THEN "'full_rescan_every_n_moves' must be > 0"
    ELSE IF cfg["max_consecutive_failures"].v <= 0
    THEN "'max_consecutive_failures' must be > 0"
    ELSE IF Strip(cfg["debug_dir"].v) = <<>>
    THEN "'debug_dir' must be a non-empty string"
    ELSE IF \/ cfg["cell_w"].v + cfg["gap_x"].v <= 0
            \/ cfg["cell_h"].v + cfg["gap_y"].v <= 0
    THEN "Invalid pitch values from cell/gap config"
    ELSE IF \/ get_board_roi(Plain(cfg))[1] < 0
            \/ get_board_roi(Plain(cfg))[2] < 0
    THEN "Derived board ROI has negative origin"
    ELSE "ok"

\* The first key of the sequence that the configuration lacks, as the
\* KeyError a read config[key] raises; None when every read succeeds.
RECURSIVE FirstMissing(_, _)
FirstMissing(cfg, keys) ==
    IF keys = <<>> THEN None
    ELSE IF Head(keys) \notin DOMAIN cfg THEN <<Head(keys)>>
    ELSE FirstMissing(cfg, Tail(keys))

\* The keys classify_board reads by name, in the order of its first read of
\* each: the shape, then the geometry crop_cell reads for the first cell
\* (_cell_bounds_absolute, then get_board_roi), then for a cell of at least
\* one pixel the three thresholds of classify_block_or_empty, then
\* tile_similarity_threshold when a cell was left unresolved.
ClassifyReads(has_pixels, has_unresolved) ==
    <<"rows", "cols", "cell_w", "cell_h", "gap_x", "gap_y",
      "board_center_x", "board_center_y">>
        \o (IF has_pixels
            THEN <<"block_match_threshold", "empty_pink_ratio_threshold",
                   "empty_texture_threshold">>
            ELSE <<>>)
        \o (IF has_pixels /\ has_unresolved
            THEN <<"tile_similarity_threshold">> ELSE <<>>)

\* The keys should_full_rescan reads by name, in the order of its reads.
RescanReads == <<"full_rescan_every_n_moves", "match_threshold">>

\* A configuration that passes validation, with the two keys validation
\* does not ask for; its debug_dir is "debug".
ValidConfig ==
    [k \in {"rows", "cols"} |-> JInt(3)]
    @@ [k \in {"board_center_x", "board_center_y"} |-> JInt(200)]
    @@ [k \in {"cell_w", "cell_h"} |-> JInt(20)]
    @@ [k \in {"gap_x", "gap_y", "settle_wait_ms"} |-> JInt(0)]
    @@ ("click_pause_ms" :> JInt(80)) @@ ("post_click_wait_ms" :> JInt(250))
    @@ ("stability_check_frames" :> JInt(2))
    @@ ("full_rescan_every_n_moves" :> JInt(5))
    @@ ("max_consecutive_failures" :> JInt(3))
    @@ [k \in {"block_match_threshold", "background_match_threshold",
               "tile_similarity_threshold", "match_threshold",
               "empty_pink_ratio_threshold"} |-> JFloat(Half(1))]
    @@ ("empty_texture_threshold" :> JFloat(Frac(5, 1)))
    @@ ("stability_pixel_diff_threshold" :> JFloat(Frac(2, 1)))
    @@ ("debug_enabled" :> JBool(FALSE))
    @@ ("debug_dir" :> JStr(<<100, 101, 98, 117, 103>>))

\* cfg with the entries of override in place of its own, and without the
\* keys of drop.
Edit(cfg, override, drop) ==
    [k \in ((DOMAIN cfg) \cup (DOMAIN override)) \ drop |->
        IF k \in DOMAIN override THEN override[k] ELSE cfg[k]]

\* The configuration files load_config is given: the valid one, with some
\* keys dropped and some values of another type or out of range.  The
\* values of debug_dir other than "debug" are the empty string, strings of
\* whitespace only (a blank, a vertical tab, an em space U+2003, an
\* ideographic space U+3000, and a no-break space, a line separator, a
\* line feed and U+001F in a row), "d" between an en quad U+2000 and a
\* carriage return, and "a b".
ConfigFiles ==
    {Edit(ValidConfig, threshold @@ every_n @@ block @@ centre @@ dir,
          dropped) :
        dropped \in SUBSET {"match_threshold", "empty_pink_ratio_threshold",
                            "tile_similarity_threshold"},
        threshold \in Optional("background_match_threshold",
                               {JFloat(Frac(3, 2))}),
        every_n \in Optional("full_rescan_every_n_moves", {JInt(0)}),
        block \in Optional("block_match_threshold", {JInt(1), JBool(TRUE)}),
        centre \in Optional("board_center_x", {JInt(0)}),
        dir \in Optional("debug_dir",
                          {JStr(x) : x \in {<<>>, <<32>>, <<11>>, <<8195>>,
                                            <<12288>>, <<160, 8232, 10, 31>>,
                                            <<8192, 100, 13>>,
                                            <<97, 32, 98>>}})}

ValidationInit ==
    /\ config \in ConfigFiles
    /\ pc = "load_config"
    /\ op = "init"
    /\ ret = None
    /\ attempt = None
    /\ trace = <<>>
    /\ dry_run = FALSE
    /\ IdleSolver
    /\ IdleRuntimeState
    /\ IdleClassifier
    /\ IdleSearch
    /\ IdleLoops

\* Lines 108-120: load_config validates the parsed file and returns it, or
\* the ConfigError leaves it.
ValidateConfig ==
    /\ pc = "load_config"
    /\ op' = "_validate_config"
    /\ ret' = <<_validate_config(config)>>
    /\ pc' = IF _validate_config(config) = "ok" THEN "validated"
             ELSE "config_error"
    /\ UNCHANGED <<board, arg_a, arg_b, controller_vars, classifier_vars>>
    /\ UNCHANGED <<attempt, trace, dry_run, search_vars, loop_vars>>
    /\ UNCHANGED since_rescan

\* classify_board on the validated configuration: it returns, or a read of
\* an absent key raises KeyError.
ClassifyBoardReads ==
    /\ pc = "validated"
    /\ \E has_pixels \in BOOLEAN, has_unresolved \in BOOLEAN :
        LET missing ==
                FirstMissing(config, ClassifyReads(has_pixels, has_unresolved))
        IN  /\ ret' = missing
            /\ pc' = IF missing = None THEN "classified" ELSE "key_error"
    /\ op' = "classify_board"
    /\ UNCHANGED <<board, arg_a, arg_b, controller_vars, classifier_vars>>
    /\ UNCHANGED <<attempt, trace, dry_run, search_vars, loop_vars>>
    /\ UNCHANGED since_rescan

\* should_full_rescan on the validated configuration: it returns, or a
\* read of an absent key raises KeyError.
ShouldFullRescanReads ==
    /\ pc = "classified"
    /\ ret' = FirstMissing(config, RescanReads)
    /\ pc' = IF FirstMissing(config, RescanReads) = None THEN "checked"
             ELSE "key_error"
    /\ op' = "should_full_rescan"
    /\ UNCHANGED <<board, arg_a, arg_b, controller_vars, classifier_vars>>
    /\ UNCHANGED <<attempt, trace, dry_run, search_vars, loop_vars>>
    /\ UNCHANGED since_rescan

ValidationNext == ValidateConfig \/ ClassifyBoardReads \/ ShouldFullRescanReads

ValidationSpec == ValidationInit /\ [][ValidationNext]_vars

(***************************************************************************)
(* Claims about validation                                                 *)
(***************************************************************************)

\* The keys the core calls of the cycle read by name.
CoreKeys ==
    {"block_match_threshold", "empty_pink_ratio_threshold",
     "empty_texture_threshold", "tile_similarity_threshold",
     "match_threshold", "full_rescan_every_n_moves"}

\* C29: every configuration _validate_config accepts holds every key the
\* core calls of the click-once cycle read by name, so a validated run
\* never ends in a missing-key error.  The code does not keep this:
\* required_types names neither empty_pink_ratio_threshold nor
\* match_threshold.
C29_ValidatedConfigHasCoreKeys ==
    pc \in {"validated", "classified", "checked", "key_error"} =>
        /\ CoreKeys \subseteq DOMAIN config
        /\ pc # "key_error"

\* A configuration passed validation and classification, and
\* should_full_rescan raised KeyError for match_threshold.
C29_Witness ==
    /\ pc = "key_error"
    /\ op = "should_full_rescan"
    /\ ret = <<"match_threshold">>
    /\ "empty_pink_ratio_threshold" \in DOMAIN config

====
